---- MODULE Spec2Model ----
(***************************************************************************)
(* Detection-and-enrichment pipeline of the threat-detection dashboard:    *)
(* the logs / alerts / ip_reputation tables (database/init.js), the        *)
(* detection rules (detection/rules.js), the AbuseIPDB reputation cache    *)
(* (enrichment/abuseipdb.js) and the API routes that drive them.           *)
(*                                                                         *)
(* Time is in whole seconds since the Unix epoch (SQLite's datetime() has  *)
(* one-second resolution); timestamps are ISO-8601 UTC texts, modelled by  *)
(* the second they denote.  An IPv4 address is the tuple of its octets; a  *)
(* status text is the tuple of its characters.                             *)
(***************************************************************************)
EXTENDS Integers, Sequences, FiniteSets, TLC

VARIABLES
    now,            \* the wall clock: datetime('now') / new Date()
    logs,           \* table logs, in rowid order
    alerts,         \* table alerts, in rowid order
    ret,            \* what the last completed call returned to its caller
    ingests,        \* number of ingestion requests served
    ticks,          \* number of clock steps taken
    apiKey,         \* ABUSEIPDB_API_KEY is configured
    ip_reputation,  \* table ip_reputation, in rowid order
    calls,          \* the getIPReputationWithCache calls in flight, by caller
    answered,       \* history: per address, the first answer a lookup computed
                    \* in the current TTL period, and whether it was overwritten
    run             \* the runAllDetections call in flight, if any

vars == <<now, logs, alerts, ret, ingests, ticks, apiKey, ip_reputation, calls,
          answered, run>>

cacheVars == <<apiKey, ip_reputation, calls, answered, run>>

\* SQL NULL / JavaScript null or undefined, for each kind of value
NULL == "NULL"      \* a missing text
NoIP == <<>>        \* a missing address
NoTime == 0
NoRun == [pc |-> "idle", runs |-> 0]

----------------------------------------------------------------------------
(* Bounds of the model *)

MaxLogs == 6        \* rows in logs
MaxAlerts == 2      \* rows in alerts
MaxIngests == 2     \* ingestion requests
MaxTicks == 1        \* clock steps of the rule scenarios
MaxRuns == 1         \* detection runs of the run scenarios
MaxServerTicks == 1  \* clock steps of the server scenarios
MaxServerRuns == 2   \* detection runs of the server scenarios, both callers together
MaxCacheTicks == 1   \* clock steps of the cache scenarios

----------------------------------------------------------------------------
(* Calendar: strftime('%H', t), strftime('%w', t) *)

SecondsPerHour == 3600
SecondsPerDay == 86400

\* strftime('%H', timestamp) cast to INTEGER
HourOf(t) == (t \div SecondsPerHour) % 24

\* strftime('%w', timestamp): 0 = Sunday .. 6 = Saturday; 1970-01-01 was a Thursday
WeekdayOf(t) == ((t \div SecondsPerDay) + 4) % 7

\* the calendar instants the tests use (detection.test.js)
Wed0200 == 1760493600       \* 2025-10-15T02:00:00Z
Wed1000 == 1760522400       \* 2025-10-15T10:00:00Z
Sun0000 == 1760832000       \* 2025-10-19T00:00:00Z
Now0 == 1760529600          \* 2025-10-15T12:00:00Z, the clock at start

----------------------------------------------------------------------------
(* Status texts and SQLite's LIKE '%pattern%' *)

\* the characters of the status texts that occur; a missing status has none
Chars(text) ==
    CASE text = "failed" -> <<"f","a","i","l","e","d">>
      [] text = "Access DENIED" -> <<"A","c","c","e","s","s"," ","D","E","N","I","E","D">>
      [] text = "invalid_pw" -> <<"i","n","v","a","l","i","d","_","p","w">>
      [] text = "success" -> <<"s","u","c","c","e","s","s">>
      [] text = "Accepted" -> <<"A","c","c","e","p","t","e","d">>
      [] text = "blocked" -> <<"b","l","o","c","k","e","d">>
      [] text = NULL -> <<>>

\* LIKE folds the case of ASCII letters
LowerChar(c) ==
    CASE c = "A" -> "a" [] c = "C" -> "c" [] c = "D" -> "d" [] c = "E" -> "e"
      [] c = "I" -> "i" [] c = "N" -> "n" [] OTHER -> c

Lower(s) == [i \in 1..Len(s) |-> LowerChar(s[i])]

\* text LIKE '%pat%': NULL LIKE ... is NULL, which WHERE treats as false
LikeContains(text, pat) ==
    /\ text # NULL
    /\ LET folded == Lower(Chars(text))
       IN  \E i \in 1..(Len(folded) - Len(pat) + 1) :
              SubSeq(folded, i, i + Len(pat) - 1) = pat

Pat_fail == <<"f","a","i","l">>
Pat_denied == <<"d","e","n","i","e","d">>
Pat_invalid == <<"i","n","v","a","l","i","d">>
Pat_success == <<"s","u","c","c","e","s","s">>
Pat_accepted == <<"a","c","c","e","p","t","e","d">>

\* (status LIKE '%fail%' OR status LIKE '%denied%' OR status LIKE '%invalid%')
IsFailedStatus(status) ==
    \/ LikeContains(status, Pat_fail)
    \/ LikeContains(status, Pat_denied)
    \/ LikeContains(status, Pat_invalid)

\* (status LIKE '%success%' OR status LIKE '%accepted%' OR status = 'success')
IsSuccessStatus(status) ==
    \/ LikeContains(status, Pat_success)
    \/ LikeContains(status, Pat_accepted)
    \/ status = "success"

\* the status texts that occur, and those of them each condition accepts
StatusTexts ==
    {"failed", "Access DENIED", "invalid_pw", "success", "Accepted", "blocked", NULL}
FailedStatusTexts == {text \in StatusTexts : IsFailedStatus(text)}
SuccessStatusTexts == {text \in StatusTexts : IsSuccessStatus(text)}

----------------------------------------------------------------------------
(* Addresses and user names; each universe is listed in the order of the   *)
(* texts, which is the order GROUP BY returns its groups in.               *)

IP_10_0_0_0 == <<10, 0, 0, 0>>
IP_10_0_0_1 == <<10, 0, 0, 1>>
IP_10_0_0_2 == <<10, 0, 0, 2>>
IP_10_0_0_3 == <<10, 0, 0, 3>>
IP_10_0_0_4 == <<10, 0, 0, 4>>
IP_10_0_0_5 == <<10, 0, 0, 5>>
IP_10_0_0_6 == <<10, 0, 0, 6>>
IP_private == <<192, 168, 1, 100>>
IP_medium == <<198, 51, 100, 150>>
IP_high == <<203, 0, 113, 201>>
IP_low == <<203, 0, 113, 45>>

IPUniverse ==
    << IP_10_0_0_0, IP_10_0_0_1, IP_10_0_0_2, IP_10_0_0_3, IP_10_0_0_4,
       IP_10_0_0_5, IP_10_0_0_6, IP_private, IP_medium, IP_high, IP_low >>

UserUniverse == << "admin", "alice" >>

Range(s) == {s[i] : i \in 1..Len(s)}

\* the members of seq that satisfy Test, in seq's order
RECURSIVE Filter(_, _)
Filter(seq, keep) ==
    IF seq = <<>> THEN <<>>
    ELSE (IF Head(seq) \in keep THEN <<Head(seq)>> ELSE <<>>) \o Filter(Tail(seq), keep)

SetMin(S) == CHOOSE x \in S : \A y \in S : x <= y
SetMax(S) == CHOOSE x \in S : \A y \in S : x >= y

----------------------------------------------------------------------------
(* Ingestion: normalizeLogEntry and the insertMany transaction *)

\* entry.a || fallback, where `missing` is the falsy value of a's kind
OrElse(a, missing, fallback) == IF a = missing THEN fallback ELSE a

\* utils/parsers.js normalizeLogEntry; new Date().toISOString() is the clock
normalizeLogEntry(entry) ==
    [ timestamp  |-> OrElse(entry.timestamp, NoTime, now),
      event_type |-> OrElse(entry.event_type, NULL, "unknown"),
      username   |-> OrElse(entry.username, NULL, NULL),
      source_ip  |-> OrElse(entry.source_ip, NoIP, NoIP),
      status     |-> OrElse(entry.status, NULL, NULL) ]

\* (mutation of insertMany: the ids of a batch are the positions in the batch)
insertManyIdsPerBatch(entries) ==
    logs \o [i \in 1..Len(entries) |->
                [id |-> i] @@ normalizeLogEntry(entries[i])]

\* insertLog.run for each entry inside one db.transaction; ids are AUTOINCREMENT
insertMany(entries) ==
    logs \o [i \in 1..Len(entries) |->
                [id |-> Len(logs) + i] @@ normalizeLogEntry(entries[i])]

\* a JSON value that insertLog.run cannot bind (an object, an array, a
\* boolean), here in the place of a username
Unbindable == "{object}"

\* the first entry of the batch at which insertLog.run throws, 0 if none
FirstRejected(entries) ==
    LET bad == {i \in 1..Len(entries) :
                    normalizeLogEntry(entries[i]).username = Unbindable}
    IN  IF bad = {} THEN 0 ELSE SetMin(bad)

\* (mutation of Transaction: the entries are inserted one by one outside a
\* transaction, so those before the failing one stay)
TransactionNoRollback(entries) ==
    IF FirstRejected(entries) = 0 THEN insertMany(entries)
    ELSE insertMany(SubSeq(entries, 1, FirstRejected(entries) - 1))

\* db.transaction(...)(entries): COMMIT after the last entry, ROLLBACK when
\* insertLog.run throws
Transaction(entries) ==
    IF FirstRejected(entries) = 0 THEN insertMany(entries) ELSE logs

\* the response of an ingestion route whose transaction was rolled back
IngestFailed(route) == [op |-> route, value |-> <<>>, status |-> 500]

\* POST /logs/batch with body `entries`: ingest, no detection run
LogsBatch(entries) ==
    /\ ingests < MaxIngests
    /\ Len(logs) + Len(entries) <= MaxLogs
    /\ logs' = Transaction(entries)
    /\ ingests' = ingests + 1
    /\ ret' = IF FirstRejected(entries) = 0
              THEN [op |-> "logsBatch", value |-> <<>>, logs_ingested |-> Len(entries)]
              ELSE IngestFailed("logsBatch")
    /\ UNCHANGED <<now, alerts, ticks, cacheVars>>

\* the clock advances by d seconds (at most `limit` times)
Advance(d, limit) ==
    /\ ticks < limit
    /\ now' = now + d
    /\ ticks' = ticks + 1
    /\ ret' = [op |-> "none", value |-> <<>>]
    /\ UNCHANGED <<logs, alerts, ingests, cacheVars>>

----------------------------------------------------------------------------
(* The alerts table *)

\* insertAlert.run(alert_type, severity, title, description, affected_entity,
\* source_ip, event_count, first_seen, last_seen, ai_summary); status defaults
\* to 'open', id is AUTOINCREMENT
AlertRow(id, type, severity, entity, ip, count, first, last) ==
    [ id |-> id, alert_type |-> type, severity |-> severity,
      affected_entity |-> entity, source_ip |-> ip, event_count |-> count,
      first_seen |-> first, last_seen |-> last, status |-> "open" ]

----------------------------------------------------------------------------
(* detectBruteForce (detection/rules.js) *)

threshold == 5
timeWindow == 300

\* datetime(timestamp) > datetime('now', '-<seconds> seconds')
Within(t, seconds) == t > now - seconds

\* rows matched by the WHERE clause shared by ipQuery and userQuery
FailedRecentRows ==
    {i \in 1..Len(logs) :
        logs[i].status \in FailedStatusTexts /\ Within(logs[i].timestamp, timeWindow)}

\* (mutation of Having: HAVING COUNT(*) > ?)
HavingMoreThan(group) == Cardinality(group) > threshold

\* HAVING COUNT(*) >= ?
Having(group) == Cardinality(group) >= threshold

GroupMin(group) == SetMin({logs[i].timestamp : i \in group})
GroupMax(group) == SetMax({logs[i].timestamp : i \in group})

\* ipQuery.all(threshold) over the matched rows: GROUP BY source_ip (source_ip
\* IS NOT NULL), one row per group that passes HAVING
ipKeys(matched) ==
    Filter(IPUniverse, {ip \in Range(IPUniverse) :
                            Having({i \in matched : logs[i].source_ip = ip})})

ipRows(matched, keys) ==
    LET group(ip) == {i \in matched : logs[i].source_ip = ip}
    IN  [k \in 1..Len(keys) |->
            [ source_ip     |-> keys[k],
              attempt_count |-> Cardinality(group(keys[k])),
              first_attempt |-> GroupMin(group(keys[k])),
              last_attempt  |-> GroupMax(group(keys[k])) ]]

ipResults(matched) == ipRows(matched, ipKeys(matched))

\* the rows a bare column of a MIN/MAX aggregate query may be read from
BareRows(group) ==
    {i \in group : logs[i].timestamp \in {GroupMin(group), GroupMax(group)}}

\* (mutation of UserGroup: GROUP BY username, source_ip)
UserGroupPerIP(matched, u) ==
    LET rows == {i \in matched : logs[i].username = u}
    IN  {i \in rows : logs[i].source_ip = logs[SetMin(rows \cup {Len(logs)})].source_ip}

\* userQuery's groups: GROUP BY username (username IS NOT NULL)
UserGroup(matched, u) == {i \in matched : logs[i].username = u}

userKeys(matched) ==
    Filter(UserUniverse, {u \in Range(UserUniverse) : Having(UserGroup(matched, u))})

\* the choices of the row that supplies userQuery's bare source_ip, per group
BarePicksOf(matched, keys) ==
    {pick \in [keys -> 1..Len(logs)] :
        \A u \in keys : pick[u] \in BareRows(UserGroup(matched, u))}

BarePicks(matched) == BarePicksOf(matched, Range(userKeys(matched)))

\* userQuery.all(threshold)
userRows(matched, pick, keys) ==
    [k \in 1..Len(keys) |->
        [ username      |-> keys[k],
          source_ip     |-> logs[pick[keys[k]]].source_ip,
          attempt_count |-> Cardinality(UserGroup(matched, keys[k])),
          first_attempt |-> GroupMin(UserGroup(matched, keys[k])),
          last_attempt  |-> GroupMax(UserGroup(matched, keys[k])) ]]

userResults(matched, pick) == userRows(matched, pick, userKeys(matched))

\* the rows detectBruteForce inserts, IP-keyed first, then username-keyed
BruteForceAlerts(ipr, usr, firstId) ==
    [k \in 1..Len(ipr) |->
        AlertRow(firstId + k - 1, "brute_force", "high", ipr[k].source_ip,
                 ipr[k].source_ip, ipr[k].attempt_count,
                 ipr[k].first_attempt, ipr[k].last_attempt)]
    \o
    [k \in 1..Len(usr) |->
        AlertRow(firstId + Len(ipr) + k - 1, "brute_force", "high",
                 usr[k].username, usr[k].source_ip, usr[k].attempt_count,
                 usr[k].first_attempt, usr[k].last_attempt)]

\* the list detectBruteForce returns: { id, type, ...result }
BruteForceReturn(ipr, usr, firstId) ==
    [k \in 1..Len(ipr) |->
        [id |-> firstId + k - 1, type |-> "brute_force_ip"] @@ ipr[k]]
    \o
    [k \in 1..Len(usr) |->
        [id |-> firstId + Len(ipr) + k - 1, type |-> "brute_force_user"] @@ usr[k]]

\* a caller (the tests, a detection run) invokes detectBruteForce()
DetectBruteForce ==
    LET matched == FailedRecentRows
        ipr == ipResults(matched)
    IN  \E pick \in BarePicks(matched) :
            LET usr == userResults(matched, pick)
            IN  /\ Len(alerts) + Len(ipr) + Len(usr) <= MaxAlerts
                /\ alerts' = alerts \o BruteForceAlerts(ipr, usr, Len(alerts) + 1)
                /\ ret' = [op |-> "detectBruteForce",
                           value |-> BruteForceReturn(ipr, usr, Len(alerts) + 1)]
                /\ UNCHANGED <<now, logs, ingests, ticks, cacheVars>>

----------------------------------------------------------------------------
(* Brute-force scenarios: bursts of login events, one second apart, the    *)
(* last one stamped with the current second (as the tests build them).     *)

BurstSources == {"one", "distinct"}

\* one address for the whole burst, or 10.0.0.0, 10.0.0.1, ... in turn
BurstIP(src, i) == IF src = "one" THEN IP_private ELSE IPUniverse[i]

\* a single event, one event short of the threshold, the threshold
BurstSizes == {1, threshold - 1, threshold}

Burst(n, src, user, status) ==
    [i \in 1..n |->
        [ timestamp |-> now - (n - i), event_type |-> "login", username |-> user,
          source_ip |-> BurstIP(src, i), status |-> status ]]

IngestBurst ==
    \E n \in BurstSizes, src \in BurstSources, user \in {"admin", NULL},
       status \in {"failed", "success"} :
        LogsBatch(Burst(n, src, user, status))

\* the clock passes to the last second at which the newest stored event is
\* inside the window (the events before it are then outside)
TickBrute == logs # <<>> /\ Advance(timeWindow - 1, MaxTicks)

Init ==
    /\ now = Now0
    /\ logs = <<>>
    /\ alerts = <<>>
    /\ ret = [op |-> "none", value |-> <<>>]
    /\ ingests = 0
    /\ ticks = 0
    /\ apiKey = FALSE
    /\ ip_reputation = <<>>
    /\ calls = <<>>
    /\ answered = [ip \in Range(IPUniverse) |-> <<>>]
    /\ run = NoRun

NextBrute == IngestBurst \/ TickBrute \/ DetectBruteForce

SpecBrute == Init /\ [][NextBrute]_vars

----------------------------------------------------------------------------
(* Claims about detectBruteForce, stated over the call that just returned:  *)
(* ret is its result, logs and now are what it ran against.                 *)

FailureTexts == {"failed", "Access DENIED", "invalid_pw"}

\* the stored failed-status events of the trailing 300 seconds
FailedInWindow ==
    {i \in 1..Len(logs) :
        /\ logs[i].status \in FailureTexts
        /\ now - logs[i].timestamp < 300
        /\ logs[i].timestamp <= now}

FailedFromIP(ip) == {i \in FailedInWindow : logs[i].source_ip = ip}
FailedOnUser(u) == {i \in FailedInWindow : logs[i].username = u}

\* the entries of the returned list that are keyed by this address / user
IpKeyed(ip) ==
    {k \in 1..Len(ret.value) :
        ret.value[k].type = "brute_force_ip" /\ ret.value[k].source_ip = ip}
UserKeyed(u) ==
    {k \in 1..Len(ret.value) :
        ret.value[k].type = "brute_force_user" /\ ret.value[k].username = u}

\* the returned entry k and the row it reports having inserted
ReportsAlert(k, entity, n) ==
    /\ ret.value[k].attempt_count = n
    /\ ret.value[k].id \in 1..Len(alerts)
    /\ LET row == alerts[ret.value[k].id]
       IN  /\ row.alert_type = "brute_force"
           /\ row.severity = "high"
           /\ row.affected_entity = entity
           /\ row.event_count = n

\* C1: N failed-status events of one source IP inside the 300-second window
\* give exactly one IP-keyed brute_force alert for that IP, with event_count N
\* and severity high, when N >= 5; they give no IP-keyed alert when N <= 4, and
\* no alert at all when they are all the failed events there are.
C1_BruteForceByIP ==
    ret.op = "detectBruteForce" =>
        /\ \A ip \in Range(IPUniverse) :
              LET n == Cardinality(FailedFromIP(ip))
              IN  /\ n >= 5 => /\ Cardinality(IpKeyed(ip)) = 1
                               /\ \A k \in IpKeyed(ip) : ReportsAlert(k, ip, n)
                  /\ n <= 4 => IpKeyed(ip) = {}
        /\ Cardinality(FailedInWindow) <= 4 => ret.value = <<>>

\* C1 witness: six failed events of one address in the window, reported once
C1_Witness ==
    /\ ret.op = "detectBruteForce"
    /\ \E ip \in Range(IPUniverse) :
          /\ Cardinality(FailedFromIP(ip)) = 6
          /\ \E k \in IpKeyed(ip) : ReportsAlert(k, ip, 6)

\* C2: five failed-status events inside the window that target one username
\* from five distinct source IPs give exactly one username-keyed brute_force
\* alert (affected_entity the username, event_count 5) and no IP-keyed alert;
\* a username's count is the number of its events whatever their addresses.
C2_BruteForceByUser ==
    ret.op = "detectBruteForce" =>
        \A u \in Range(UserUniverse) :
            LET rows == FailedOnUser(u)
                n == Cardinality(rows)
            IN  /\ n >= 5 => /\ Cardinality(UserKeyed(u)) = 1
                             /\ \A k \in UserKeyed(u) : ReportsAlert(k, u, n)
                /\ ( /\ n = 5
                     /\ Cardinality({logs[i].source_ip : i \in rows}) = 5
                     /\ FailedInWindow = rows )
                   => /\ Len(ret.value) = 1
                      /\ \A ip \in Range(IPUniverse) : IpKeyed(ip) = {}

\* C2 witness: five failed events on admin from five addresses, one alert
C2_Witness ==
    /\ ret.op = "detectBruteForce"
    /\ Cardinality(FailedOnUser("admin")) = 5
    /\ Cardinality({logs[i].source_ip : i \in FailedOnUser("admin")}) = 5
    /\ Len(ret.value) = 1
    /\ UserKeyed("admin") = {1}

----------------------------------------------------------------------------
(* detectOffHoursAccess (detection/rules.js) *)

businessStartHour == 9
businessEndHour == 18

\* datetime(timestamp) > datetime('now', '-1 day')
WithinLastDay(t) == t > now - SecondsPerDay

\* the WHERE clause of the off-hours query
OffHoursRow(row) ==
    /\ row.status \in SuccessStatusTexts
    /\ \/ HourOf(row.timestamp) < businessStartHour
       \/ HourOf(row.timestamp) >= businessEndHour
       \/ WeekdayOf(row.timestamp) \in {0, 6}
    /\ WithinLastDay(row.timestamp)

\* (mutation of OffHoursResults: the query groups by username and source_ip
\* and yields the first row of each group)
OffHoursResultsGrouped ==
    LET rows == SelectSeq(logs, OffHoursRow)
    IN  SelectSeq(rows, LAMBDA row :
            \A k \in 1..Len(rows) :
                (rows[k].username = row.username /\ rows[k].source_ip = row.source_ip)
                    => rows[k].id >= row.id)

\* query.all(businessStartHour, businessEndHour): the matching rows
OffHoursResults == SelectSeq(logs, OffHoursRow)

\* the rows detectOffHoursAccess inserts: one per matching event
OffHoursAlerts(results, firstId) ==
    [k \in 1..Len(results) |->
        AlertRow(firstId + k - 1, "off_hours_access", "medium", results[k].username,
                 results[k].source_ip, 1, results[k].timestamp, results[k].timestamp)]

\* the list detectOffHoursAccess returns: { id, type, ...result }
OffHoursReturn(results, firstId) ==
    [k \in 1..Len(results) |->
        [ id |-> firstId + k - 1, type |-> "off_hours",
          username |-> results[k].username, source_ip |-> results[k].source_ip,
          timestamp |-> results[k].timestamp, event_type |-> results[k].event_type ]]

\* a caller (the tests, a detection run) invokes detectOffHoursAccess()
DetectOffHoursAccess ==
    LET results == OffHoursResults
    IN  /\ Len(alerts) + Len(results) <= MaxAlerts
        /\ alerts' = alerts \o OffHoursAlerts(results, Len(alerts) + 1)
        /\ ret' = [op |-> "detectOffHoursAccess",
                   value |-> OffHoursReturn(results, Len(alerts) + 1)]
        /\ UNCHANGED <<now, logs, ingests, ticks, cacheVars>>

----------------------------------------------------------------------------
(* Off-hours scenarios: single login events stamped with calendar instants *)
(* of Wednesday 2025-10-15 and Sunday 2025-10-19, as in the tests.         *)

Wed0000 == Wed0200 - 2 * SecondsPerHour

CalendarHours == {2, 9, 10, 17, 18}

CalendarTimes ==
    {day + h * SecondsPerHour : day \in {Wed0000, Sun0000}, h \in CalendarHours}

IngestLogin ==
    \E t \in CalendarTimes, status \in {"success", "failed"} :
        LogsBatch(<< [ timestamp |-> t, event_type |-> "login", username |-> "alice",
                       source_ip |-> IP_low, status |-> status ] >>)

\* the clock passes to the last second at which the Wednesday 02:00 event is
\* inside the trailing day, to the second it leaves it, or a week on
TickOffHours ==
    \E d \in { Wed0200 + SecondsPerDay - Now0 - 1,
               Wed0200 + SecondsPerDay - Now0,
               7 * SecondsPerDay } : Advance(d, MaxTicks)

NextOffHours == IngestLogin \/ TickOffHours \/ DetectOffHoursAccess

SpecOffHours == Init /\ [][NextOffHours]_vars

\* the entries of the returned off-hours list for events stamped t
OffHoursEntries(t) ==
    {k \in 1..Len(ret.value) : ret.value[k].type = "off_hours" /\ ret.value[k].timestamp = t}

StoredAt(t, status) ==
    {i \in 1..Len(logs) : logs[i].timestamp = t /\ logs[i].status = status}

\* C3 (as claimed): a stored success event stamped Wednesday 02:00 yields
\* exactly one off_hours_access alert, one stamped Wednesday 10:00 yields none,
\* and a failed event stamped 02:00 yields none, whatever the time of the run.
C3_AsClaimed ==
    ret.op = "detectOffHoursAccess" =>
        /\ Cardinality(OffHoursEntries(Wed0200)) = Cardinality(StoredAt(Wed0200, "success"))
        /\ OffHoursEntries(Wed1000) = {}
        /\ StoredAt(Wed0200, "success") = {} => OffHoursEntries(Wed0200) = {}

\* C4 (as claimed): a stored success event stamped on Sunday yields one
\* off_hours_access alert, at every hour of the day.
C4_AsClaimed ==
    ret.op = "detectOffHoursAccess" =>
        \A h \in 0..23 :
            LET t == Sun0000 + h * SecondsPerHour
            IN  Cardinality(OffHoursEntries(t)) = Cardinality(StoredAt(t, "success"))

\* an event that was a successful login outside Monday-Friday 09:00-17:59 and
\* is not older than 24 hours
QualifiesOffHours(e) ==
    LET secondOfDay == e.timestamp % 86400
        daysSinceThursday == e.timestamp \div 86400      \* 1970-01-01
        weekend == (daysSinceThursday % 7) \in {2, 3}    \* Saturday, Sunday
    IN  /\ e.status \in {"success", "Accepted"}
        /\ (secondOfDay < 9 * 3600 \/ secondOfDay >= 18 * 3600 \/ weekend)
        /\ now - e.timestamp < 86400

\* the alerts the call that just returned has inserted
InsertedByCall == SubSeq(alerts, Len(alerts) - Len(ret.value) + 1, Len(alerts))

C23_StaleWitness ==
    /\ ret.op = "detectOffHoursAccess"
    /\ ret.value = <<>>
    /\ \E i \in 1..Len(logs) : /\ logs[i].status = "success"
                                /\ logs[i].timestamp = Wed0200
                                /\ now - logs[i].timestamp >= 86400

----------------------------------------------------------------------------
(* The reputation cache (enrichment/abuseipdb.js) *)

CACHE_TTL_DAYS == 7
CacheTTL == CACHE_TTL_DAYS * SecondsPerDay

\* ipAddress.startsWith('172.2'): the decimal text of the second octet begins with 2
BeginsWith2(octet) == octet = 2 \/ octet \in 20..29 \/ octet \in 200..255

\* (mutation of generateStubReputation: the last-octet bands applied to every address)
generateStubReputationNoPrivate(ip) ==
    LET lastOctet == ip[4]
        abuseScore == IF lastOctet > 200 THEN 75 + (lastOctet % 25)
                      ELSE IF lastOctet > 100 THEN 25 + (lastOctet % 25)
                      ELSE lastOctet % 15
    IN  [ ip_address |-> ip, abuse_confidence_score |-> abuseScore,
          country_code |-> "US", usage_type |-> "Residential",
          is_whitelisted |-> FALSE, total_reports |-> lastOctet % 5,
          raw_data |-> "stub" ]

\* generateStubReputation(ipAddress) for an IPv4 text
generateStubReputation(ip) ==
    LET isPrivate ==
            \/ ip[1] = 10
            \/ ip[1] = 192 /\ ip[2] = 168
            \/ ip[1] = 172 /\ ip[2] \in {16, 17, 18, 19, 30, 31}
            \/ ip[1] = 172 /\ BeginsWith2(ip[2])
        lastOctet == ip[4]
        abuseScore ==
            IF isPrivate THEN 0
            ELSE IF lastOctet > 200 THEN 75 + (lastOctet % 25)
            ELSE IF lastOctet > 100 THEN 25 + (lastOctet % 25)
            ELSE lastOctet % 15
        totalReports ==
            IF isPrivate THEN 0
            ELSE IF lastOctet > 200 THEN 50 + (lastOctet % 50)
            ELSE IF lastOctet > 100 THEN 10 + (lastOctet % 20)
            ELSE lastOctet % 5
    IN  [ ip_address |-> ip,
          abuse_confidence_score |-> abuseScore,
          country_code |-> IF isPrivate THEN NULL ELSE "US",
          usage_type |-> IF isPrivate THEN "Data Center/Web Hosting/Transit" ELSE "Residential",
          is_whitelisted |-> isPrivate,
          total_reports |-> totalReports,
          raw_data |-> "stub" ]

\* what the provider may put in result.data
ProviderData ==
    { [ abuseConfidenceScore |-> 80, countryCode |-> "CN", usageType |-> "Data Center",
        isWhitelisted |-> FALSE, totalReports |-> 12 ],
      [ abuseConfidenceScore |-> 60, countryCode |-> NULL, usageType |-> NULL,
        isWhitelisted |-> TRUE, totalReports |-> 0 ] }

\* how a request to the provider may end
ProviderFailures == {"429", "non-2xx", "network", "no-data"}
ProviderOutcomes ==
    {[kind |-> "data", data |-> d] : d \in ProviderData}
    \cup {[kind |-> k, data |-> NULL] : k \in ProviderFailures}

\* (mutation of fetchFromAbuseIPDB: a failed request yields a neutral record
\* in place of the stub)
fetchFromAbuseIPDBNeutral(ip, outcome) ==
    [ ip_address |-> ip,
      abuse_confidence_score |-> IF outcome.kind = "data"
                                 THEN outcome.data.abuseConfidenceScore ELSE 0,
      country_code |-> IF outcome.kind = "data"
                       THEN OrElse(outcome.data.countryCode, NULL, NULL) ELSE NULL,
      usage_type |-> IF outcome.kind = "data"
                     THEN OrElse(outcome.data.usageType, NULL, NULL) ELSE NULL,
      is_whitelisted |-> IF outcome.kind = "data" THEN outcome.data.isWhitelisted ELSE FALSE,
      total_reports |-> IF outcome.kind = "data" THEN outcome.data.totalReports ELSE 0,
      raw_data |-> IF outcome.kind = "data" THEN "api" ELSE "error" ]

\* fetchFromAbuseIPDB after the response: the record built from result.data, or
\* the stub on 429, on the exception thrown for another non-2xx status or by
\* fetch itself, and on a body without data
fetchFromAbuseIPDB(ip, outcome) ==
    IF outcome.kind = "data"
    THEN [ ip_address |-> ip,
           abuse_confidence_score |-> outcome.data.abuseConfidenceScore,
           country_code |-> OrElse(outcome.data.countryCode, NULL, NULL),
           usage_type |-> OrElse(outcome.data.usageType, NULL, NULL),
           is_whitelisted |-> outcome.data.isWhitelisted,
           total_reports |-> outcome.data.totalReports,
           raw_data |-> "api" ]
    ELSE generateStubReputation(ip)

\* a row of ip_reputation written from `reputation` at the current second
ReputationRow(reputation) ==
    [ ip_address |-> reputation.ip_address,
      abuse_confidence_score |-> reputation.abuse_confidence_score,
      country_code |-> reputation.country_code,
      usage_type |-> reputation.usage_type,
      is_whitelisted |-> IF reputation.is_whitelisted THEN 1 ELSE 0,
      total_reports |-> reputation.total_reports,
      last_checked |-> now,
      raw_data |-> reputation.raw_data ]

\* (mutation of Fresh: a record of exactly the TTL's age still counts)
FreshInclusive(row) == row.last_checked >= now - CacheTTL

\* datetime(last_checked) > datetime('now', '-7 days')
Fresh(row) == row.last_checked > now - CacheTTL

\* the rows of `table` the prepared statement getIPReputation matches
FreshRows(table, ip) ==
    SelectSeq(table, LAMBDA row : row.ip_address = ip /\ Fresh(row))

\* getIPReputation.get(ip)
getIPReputation(ip) == FreshRows(ip_reputation, ip)

\* (mutation of StoreInCache: the UPDATE of an existing row is left out)
StoreInCacheInsertOnly(reputation) ==
    IF \E k \in 1..Len(ip_reputation) : ip_reputation[k].ip_address = reputation.ip_address
    THEN ip_reputation
    ELSE Append(ip_reputation, ReputationRow(reputation))

\* (mutation of StoreInto: the row is inserted without looking for an
\* existing one)
StoreIntoAlwaysInsert(table, reputation) == Append(table, ReputationRow(reputation))

\* "Store in cache" applied to `table`: UPDATE when a row for the address
\* exists, else INSERT
StoreInto(table, reputation) ==
    IF \E k \in 1..Len(table) : table[k].ip_address = reputation.ip_address
    THEN [k \in 1..Len(table) |->
            IF table[k].ip_address = reputation.ip_address
            THEN ReputationRow(reputation) ELSE table[k]]
    ELSE Append(table, ReputationRow(reputation))

StoreInCache(reputation) == StoreInto(ip_reputation, reputation)

\* which statement "Store in cache" runs (the database logs every statement)
StoredBy(ip) ==
    IF \E k \in 1..Len(ip_reputation) : ip_reputation[k].ip_address = ip
    THEN "update" ELSE "insert"

Idle == [pc |-> "idle", ip |-> NoIP, after |-> FALSE]

\* history: a lookup of ip has returned a computed answer less than a TTL ago
RecentIn(history, ip) ==
    history[ip] # <<>> /\ now - history[ip][1].at < CacheTTL

AnsweredRecently(ip) == RecentIn(answered, ip)

\* the reputation data of a returned value: a cached row carries is_whitelisted
\* as 0 / 1, a computed record as a boolean
DataOf(value, source) ==
    [ abuse_confidence_score |-> value.abuse_confidence_score,
      country_code |-> value.country_code,
      usage_type |-> value.usage_type,
      is_whitelisted |-> IF source = "cache" THEN value.is_whitelisted = 1
                         ELSE value.is_whitelisted,
      total_reports |-> value.total_reports ]

\* history: a lookup returns the answer it computed for ip
NoteInto(history, ip, reputation) ==
    IF RecentIn(history, ip)
    THEN [history EXCEPT ![ip] = <<[@[1] EXCEPT !.overwritten = TRUE]>>]
    ELSE [history EXCEPT ![ip] =
            <<[data |-> DataOf(reputation, "computed"), at |-> now, overwritten |-> FALSE]>>]

NoteAnswer(ip, reputation) == NoteInto(answered, ip, reputation)

Returned(caller, ip, value, source, requested, outcome, stored, after) ==
    [ op |-> "getIPReputationWithCache", caller |-> caller, ip |-> ip, value |-> value,
      source |-> source, requested |-> requested, outcome |-> outcome,
      stored |-> stored, after |-> after ]

\* getIPReputationWithCache(ip) up to its return or to the request it sends
LookupStart(caller, ip) ==
    /\ calls[caller].pc = "idle"
    /\ UNCHANGED <<now, logs, alerts, ingests, ticks, apiKey, run>>
    /\ LET cached == getIPReputation(ip)
           after == ip # NoIP /\ AnsweredRecently(ip)
       IN  IF ip = NoIP
           THEN /\ ret' = Returned(caller, ip, <<>>, "null", FALSE, "none", "none", after)
                /\ UNCHANGED <<ip_reputation, calls, answered>>
           ELSE IF cached # <<>>
           THEN /\ ret' = Returned(caller, ip, <<cached[1]>>, "cache", FALSE, "none",
                                   "none", after)
                /\ UNCHANGED <<ip_reputation, calls, answered>>
           ELSE IF ~apiKey
           THEN /\ ip_reputation' = StoreInCache(generateStubReputation(ip))
                /\ answered' = NoteAnswer(ip, generateStubReputation(ip))
                /\ ret' = Returned(caller, ip, <<generateStubReputation(ip)>>,
                                   "stub", FALSE, "no-key", StoredBy(ip), after)
                /\ UNCHANGED calls
           ELSE /\ calls' = [calls EXCEPT ![caller] =
                                [pc |-> "fetching", ip |-> ip, after |-> after]]
                /\ ret' = [op |-> "none", value |-> <<>>]
                /\ UNCHANGED <<ip_reputation, answered>>

\* the provider's response (or the failure of the request) arrives; the call
\* stores what fetchFromAbuseIPDB made of it and returns it
LookupFinish(caller, outcome) ==
    /\ calls[caller].pc = "fetching"
    /\ LET ip == calls[caller].ip
           reputation == fetchFromAbuseIPDB(ip, outcome)
       IN  /\ ip_reputation' = StoreInCache(reputation)
           /\ answered' = NoteAnswer(ip, reputation)
           /\ ret' = Returned(caller, ip, <<reputation>>,
                              IF outcome.kind = "data" THEN "provider" ELSE "stub",
                              TRUE, outcome.kind, StoredBy(ip), calls[caller].after)
    /\ calls' = [calls EXCEPT ![caller] = Idle]
    /\ UNCHANGED <<now, logs, alerts, ingests, ticks, apiKey, run>>

\* getIPReputationWithCache(ip) without API key when the statement of "Store
\* in cache" throws (the database is locked, full or read-only): the catch
\* logs the error and the function returns the reputation
LookupStartStoreFails(caller, ip) ==
    /\ calls[caller].pc = "idle"
    /\ ip # NoIP
    /\ getIPReputation(ip) = <<>>
    /\ ~apiKey
    /\ answered' = NoteAnswer(ip, generateStubReputation(ip))
    /\ ret' = Returned(caller, ip, <<generateStubReputation(ip)>>, "stub", FALSE,
                       "no-key", "failed", AnsweredRecently(ip))
    /\ UNCHANGED <<now, logs, alerts, ingests, ticks, apiKey, ip_reputation, calls, run>>

\* the provider's response arrives and the statement of "Store in cache"
\* throws: the function returns what fetchFromAbuseIPDB made of the response
LookupFinishStoreFails(caller, outcome) ==
    /\ calls[caller].pc = "fetching"
    /\ LET ip == calls[caller].ip
           reputation == fetchFromAbuseIPDB(ip, outcome)
       IN  /\ answered' = NoteAnswer(ip, reputation)
           /\ ret' = Returned(caller, ip, <<reputation>>,
                              IF outcome.kind = "data" THEN "provider" ELSE "stub",
                              TRUE, outcome.kind, "failed", calls[caller].after)
    /\ calls' = [calls EXCEPT ![caller] = Idle]
    /\ UNCHANGED <<now, logs, alerts, ingests, ticks, apiKey, ip_reputation, run>>

\* the server is started again, with or without ABUSEIPDB_API_KEY in its
\* environment; the database file stays, the calls in flight are gone
Restart ==
    /\ apiKey' \in BOOLEAN
    /\ calls' = [c \in DOMAIN calls |-> Idle]
    /\ ret' = [op |-> "none", value |-> <<>>]
    /\ UNCHANGED <<now, logs, alerts, ingests, ticks, ip_reputation, answered, run>>

\* (mutation of clearStaleCache: a record of exactly the TTL's age is kept)
clearStaleCacheStrict ==
    /\ ip_reputation' = SelectSeq(ip_reputation, LAMBDA row : ~(row.last_checked < now - CacheTTL))
    /\ ret' = [op |-> "clearStaleCache", value |-> <<>>,
               changes |-> Len(ip_reputation) - Len(ip_reputation')]
    /\ UNCHANGED <<now, logs, alerts, ingests, ticks, apiKey, calls, answered, run>>

\* (mutation of clearStaleCache: the comparison is off by a second, a record
\* in the last second of its TTL is deleted)
clearStaleCacheEarly ==
    /\ ip_reputation' = SelectSeq(ip_reputation, LAMBDA row : ~(row.last_checked <= now - CacheTTL + 1))
    /\ ret' = [op |-> "clearStaleCache", value |-> <<>>,
               changes |-> Len(ip_reputation) - Len(ip_reputation')]
    /\ UNCHANGED <<now, logs, alerts, ingests, ticks, apiKey, calls, answered, run>>

\* clearStaleCache(): DELETE ... WHERE datetime(last_checked) <= datetime('now', '-7 days')
clearStaleCache ==
    /\ ip_reputation' = SelectSeq(ip_reputation, LAMBDA row : ~(row.last_checked <= now - CacheTTL))
    /\ ret' = [op |-> "clearStaleCache", value |-> <<>>,
               changes |-> Len(ip_reputation) - Len(ip_reputation')]
    /\ UNCHANGED <<now, logs, alerts, ingests, ticks, apiKey, calls, answered, run>>

----------------------------------------------------------------------------
(* Cache scenarios: two clients of GET /ip/:ip/reputation and the          *)
(* maintenance route POST /ip/reputation/clear-cache.                      *)

Callers == {"req1", "req2"}
LookupIPs == {IP_10_0_0_5, IP_high}

GetReputation == \E c \in Callers, ip \in LookupIPs : LookupStart(c, ip)
ProviderAnswers == \E c \in Callers, o \in ProviderOutcomes : LookupFinish(c, o)
ClearCache == clearStaleCache

\* the clock passes to the last second of a record's TTL, or to its end; no
\* request to the provider stays open that long
TickCache ==
    /\ \A c \in Callers : calls[c].pc = "idle"
    /\ \E d \in {CacheTTL - 1, CacheTTL} : Advance(d, MaxCacheTicks)

InitCache ==
    /\ now = Now0
    /\ logs = <<>>
    /\ alerts = <<>>
    /\ ret = [op |-> "none", value |-> <<>>]
    /\ ingests = 0
    /\ ticks = 0
    /\ apiKey \in BOOLEAN
    /\ ip_reputation = <<>>
    /\ calls = [c \in Callers |-> Idle]
    /\ answered = [ip \in Range(IPUniverse) |-> <<>>]
    /\ run = NoRun

NextCache == GetReputation \/ ProviderAnswers \/ ClearCache \/ TickCache \/ Restart

SpecCache == InitCache /\ [][NextCache]_vars

----------------------------------------------------------------------------
(* Claims about the reputation cache, checked under SpecCache.             *)

LookupReturned == ret.op = "getIPReputationWithCache" /\ ret.ip # NoIP
RowsOf(ip) == {k \in 1..Len(ip_reputation) : ip_reputation[k].ip_address = ip}
SevenDays == 7 * SecondsPerDay
FailureOutcomes == {"no-key", "429", "non-2xx", "network", "no-data"}

\* C5 as stated: a lookup of 10.0.0.5 returns is_whitelisted = true and score
\* 0 and has sent no request to the provider, whatever the cache holds and
\* whether or not an API key is configured.
C5_AsClaimed ==
    (LookupReturned /\ ret.ip = IP_10_0_0_5) =>
        /\ ~ret.requested
        /\ DataOf(ret.value[1], ret.source).is_whitelisted
        /\ ret.value[1].abuse_confidence_score = 0

\* C5 amended: a lookup of 10.0.0.5 sends a request to the provider exactly
\* when an API key is configured and no fresh record is cached; without an
\* API key and without a fresh record the answer is the fallback record;
\* whenever the fallback record is the answer (no key, or the request failed)
\* it has is_whitelisted = true and score 0.
C5_PrivateFallbackWhitelisted ==
    (LookupReturned /\ ret.ip = IP_10_0_0_5) =>
        /\ ret.requested <=> (apiKey /\ ret.source # "cache")
        /\ (~apiKey /\ ret.source # "cache") => ret.source = "stub"
        /\ ret.source = "stub" =>
              /\ ret.value[1].is_whitelisted = TRUE
              /\ ret.value[1].abuse_confidence_score = 0

\* C5 witness: with no API key, a lookup of 10.0.0.5 that found no fresh
\* record has returned the whitelisted score-0 record without a request.
C5_Witness ==
    /\ LookupReturned /\ ret.ip = IP_10_0_0_5
    /\ ~apiKey /\ ret.outcome = "no-key" /\ ~ret.requested
    /\ ret.value[1].is_whitelisted = TRUE
    /\ ret.value[1].abuse_confidence_score = 0

C9_ProviderProblemFallsBack ==
    (LookupReturned /\ ret.outcome \in FailureOutcomes) =>
        /\ ret.source = "stub"
        /\ ret.value = <<generateStubReputation(ret.ip)>>
        /\ ret.requested <=> ret.outcome # "no-key"

\* C9 witness: the request for 203.0.113.201 met a non-2xx status and the
\* lookup has returned the stub record of that address, score 76.
C9_Witness ==
    /\ LookupReturned /\ ret.ip = IP_high
    /\ ret.outcome = "non-2xx" /\ ret.requested
    /\ ret.value[1].abuse_confidence_score = 76
    /\ ret.value[1].raw_data = "stub"

\* a lookup by caller c begins in this step
C10_Begins(c) ==
    /\ calls[c].pc = "idle"
    /\ \/ calls'[c].pc = "fetching"
       \/ ret'.op = "getIPReputationWithCache" /\ ret'.caller = c /\ ~ret'.requested

\* a lookup by caller c that had sent a request returns in this step
C10_Ends(c) ==
    /\ calls[c].pc = "fetching"
    /\ ret'.op = "getIPReputationWithCache" /\ ret'.caller = c

\* the table holds a record of ip less than 7 days old
C10_FreshRecord(ip) ==
    \E k \in RowsOf(ip) : now - ip_reputation[k].last_checked < SevenDays

\* ip has rows after the step, all of them last checked now with `reputation`
C10_Refreshed(ip, reputation) ==
    /\ \E k \in 1..Len(ip_reputation') : ip_reputation'[k].ip_address = ip
    /\ \A k \in 1..Len(ip_reputation') :
          ip_reputation'[k].ip_address = ip =>
              /\ ip_reputation'[k].last_checked = now
              /\ DataOf(ip_reputation'[k], "cache") = DataOf(reputation, "computed")

C11_OneRecordPerIP ==
    \A ip \in Range(IPUniverse) : Cardinality(RowsOf(ip)) <= 1

\* C11 witness: two lookups of one address were waiting for the provider at
\* the same time; the second to resume found the row of the first and
\* updated it, and the table holds one record of the address.
C11_Witness ==
    /\ LookupReturned /\ ret.requested /\ ret.stored = "update"
    /\ now = Now0
    /\ answered[ret.ip][1].overwritten
    /\ Cardinality(RowsOf(ret.ip)) = 1

----------------------------------------------------------------------------
(* The eviction and the cache-hit conditions against each other             *)

\* the record is what getIPReputation.get returns for its address
IsCacheHit(row) == row \in Range(getIPReputation(row.ip_address))

\* C29: clearStaleCache deletes a record exactly when it is no cache hit for
\* getIPReputationWithCache at that instant: every record that is a hit (age
\* below 7 days) stays, every record that is none goes, the records that
\* remain are all hits, and the call returns the number of records that were
\* no hit.
C29_EvictionComplementsHit ==
    [][ret'.op = "clearStaleCache" =>
          /\ \A k \in 1..Len(ip_reputation) :
                LET row == ip_reputation[k]
                IN  /\ IsCacheHit(row) <=> row \in Range(ip_reputation')
                    /\ IsCacheHit(row) <=> now - row.last_checked < 7 * 86400
          /\ \A k \in 1..Len(ip_reputation') :
                /\ IsCacheHit(ip_reputation[k])'
                /\ ip_reputation'[k] \in Range(ip_reputation)
          /\ ret'.changes = Cardinality({k \in 1..Len(ip_reputation) :
                                            ~IsCacheHit(ip_reputation[k])})
      ]_vars

\* C29 witness: clearStaleCache has deleted one record and left one, which is
\* a cache hit
C29_Witness ==
    /\ ret.op = "clearStaleCache"
    /\ ret.changes = 1
    /\ Len(ip_reputation) = 1
    /\ IsCacheHit(ip_reputation[1])

\* C29 witness (last second): clearStaleCache has left a record that is one
\* second short of 7 days old
C29_LastSecondWitness ==
    /\ ret.op = "clearStaleCache"
    /\ ret.changes = 0
    /\ \E k \in 1..Len(ip_reputation) : now - ip_reputation[k].last_checked = 7 * 86400 - 1

----------------------------------------------------------------------------
(* detectGeoAnomalies (detection/rules.js) *)

\* (mutation of suspiciousRanges: the third prefix is '10.', which overlaps
\* the first)
suspiciousRangesOverlapping == << <<10, 0, 0>>, <<192, 168>>, <<10>> >>

\* suspiciousRanges '10.0.0.', '192.168.', '0.0.0.', as leading octets
suspiciousRanges == << <<10, 0, 0>>, <<192, 168>>, <<0, 0, 0>> >>

\* source_ip LIKE '<range>%'
InRange(ip, range) == ip # NoIP /\ SubSeq(ip, 1, Len(range)) = range

\* the rows of one address in the last day
RecentRowsOf(ip) ==
    {i \in 1..Len(logs) : logs[i].source_ip = ip /\ WithinLastDay(logs[i].timestamp)}

\* the groups of the query for one range: GROUP BY source_ip
GeoKeys(range) ==
    Filter(IPUniverse, {ip \in Range(IPUniverse) :
                            InRange(ip, range) /\ RecentRowsOf(ip) # {}})

\* the groups of the three queries, in the order the loop visits them
AllGeoKeys == GeoKeys(suspiciousRanges[1]) \o GeoKeys(suspiciousRanges[2])
              \o GeoKeys(suspiciousRanges[3])

\* the choices of the row that supplies the bare username, per group
GeoPicksOf(keys) ==
    {pick \in [keys -> 1..Len(logs)] :
        \A ip \in keys : pick[ip] \in BareRows(RecentRowsOf(ip))}

GeoPicks == GeoPicksOf(Range(AllGeoKeys))

\* query.all(`${range}%`) for the three ranges in turn
GeoRows(pick, keys) ==
    [k \in 1..Len(keys) |->
        [ source_ip    |-> keys[k],
          username     |-> logs[pick[keys[k]]].username,
          access_count |-> Cardinality(RecentRowsOf(keys[k])),
          first_seen   |-> GroupMin(RecentRowsOf(keys[k])),
          last_seen    |-> GroupMax(RecentRowsOf(keys[k])) ]]

GeoResults(pick) == GeoRows(pick, AllGeoKeys)

\* (mutation of GeoAlerts: the rule inserts nothing once the alerts table
\* holds a row)
GeoAlertsOnEmptyTable(results, firstId) ==
    IF firstId > 1 THEN <<>>
    ELSE [k \in 1..Len(results) |->
            AlertRow(firstId + k - 1, "geo_anomaly", "medium", results[k].username,
                     results[k].source_ip, results[k].access_count,
                     results[k].first_seen, results[k].last_seen)]

\* the rows detectGeoAnomalies inserts
GeoAlerts(results, firstId) ==
    [k \in 1..Len(results) |->
        AlertRow(firstId + k - 1, "geo_anomaly", "medium", results[k].username,
                 results[k].source_ip, results[k].access_count,
                 results[k].first_seen, results[k].last_seen)]

\* (mutation of GeoReturn: the id is read before the row is inserted)
GeoReturnIdBefore(results, firstId) ==
    [k \in 1..Len(results) |->
        [id |-> firstId + k - 2, type |-> "geo_anomaly"] @@ results[k]]

\* the list detectGeoAnomalies returns: { id, type, ...result }
GeoReturn(results, firstId) ==
    [k \in 1..Len(results) |->
        [id |-> firstId + k - 1, type |-> "geo_anomaly"] @@ results[k]]

----------------------------------------------------------------------------
(* detectHighRiskIPs (detection/rules.js) and enrichIPsBatch               *)
(* (enrichment/abuseipdb.js)                                               *)

\* the members of seq, each once, in the order of their first occurrence
Distinct(seq) ==
    LET firsts == SelectSeq([i \in 1..Len(seq) |-> i],
                            LAMBDA i : \A j \in 1..(i - 1) : seq[j] # seq[i])
    IN  [k \in 1..Len(firsts) |-> seq[firsts[k]]]

\* SELECT DISTINCT source_ip ... WHERE source_ip IS NOT NULL AND within a day
DistinctRecentIPs ==
    LET rows == SelectSeq(logs, LAMBDA row :
                    row.source_ip # NoIP /\ WithinLastDay(row.timestamp))
    IN  Distinct([k \in 1..Len(rows) |-> rows[k].source_ip])

\* getRiskLevel(score)
getRiskLevel(score) ==
    IF score >= 75 THEN "critical"
    ELSE IF score >= 50 THEN "high"
    ELSE IF score >= 25 THEN "medium"
    ELSE "low"

\* reputation.is_whitelisted as a condition: a cached row carries 0 / 1
Whitelisted(entry) ==
    IF entry.source = "cache" THEN entry.value.is_whitelisted # 0
    ELSE entry.value.is_whitelisted

\* (mutation of IsHighRisk: a synthetic reputation raises no alert)
IsHighRiskRealOnly(entry) ==
    /\ ~Whitelisted(entry)
    /\ entry.value.raw_data # "stub"
    /\ entry.value.abuse_confidence_score >= 50

\* the reputations detectHighRiskIPs alerts on
IsHighRisk(entry) ==
    /\ ~Whitelisted(entry)
    /\ entry.value.abuse_confidence_score >= 50

\* enrichIPsBatch from its k-th address on, up to the point where it waits:
\* for the provider (a request is open) or for the 250 ms timer that follows
\* each lookup when an API key is configured
RECURSIVE EnrichFrom(_, _, _, _, _)
EnrichFrom(ips, k, reps, table, history) ==
    IF k > Len(ips)
    THEN [pc |-> "done", k |-> k, reps |-> reps, table |-> table, history |-> history]
    ELSE LET ip == ips[k]
             cached == FreshRows(table, ip)
             stub == generateStubReputation(ip)
         IN  IF cached # <<>>
             THEN LET found == Append(reps, [ip |-> ip, value |-> cached[1],
                                             source |-> "cache"])
                  IN  IF apiKey
                      THEN [pc |-> "waiting", k |-> k + 1, reps |-> found,
                            table |-> table, history |-> history]
                      ELSE EnrichFrom(ips, k + 1, found, table, history)
             ELSE IF ~apiKey
             THEN EnrichFrom(ips, k + 1,
                             Append(reps, [ip |-> ip, value |-> stub, source |-> "stub"]),
                             StoreInto(table, stub), NoteInto(history, ip, stub))
             ELSE [pc |-> "fetching", k |-> k, reps |-> reps,
                   table |-> table, history |-> history]

\* activityQuery.get(ip): COUNT(*), MIN(timestamp), MAX(timestamp)
Activity(ip) ==
    [ count      |-> Cardinality(RecentRowsOf(ip)),
      first_seen |-> IF RecentRowsOf(ip) = {} THEN NoTime ELSE GroupMin(RecentRowsOf(ip)),
      last_seen  |-> IF RecentRowsOf(ip) = {} THEN NoTime ELSE GroupMax(RecentRowsOf(ip)) ]

\* (mutation of HighRiskEntries: an address that has a high_risk_ip alert
\* already raises no further one)
HighRiskEntriesOnce(reps) ==
    SelectSeq(reps, LAMBDA e :
        /\ IsHighRisk(e)
        /\ \A k \in 1..Len(alerts) :
              alerts[k].alert_type = "high_risk_ip" => alerts[k].source_ip # e.ip)

\* the loop over Object.entries(reputations): the entries that raise an alert
HighRiskEntries(reps) == SelectSeq(reps, IsHighRisk)

\* the rows detectHighRiskIPs inserts
HighRiskAlerts(entries, firstId) ==
    [k \in 1..Len(entries) |->
        AlertRow(firstId + k - 1, "high_risk_ip",
                 IF entries[k].value.abuse_confidence_score >= 75
                 THEN "critical" ELSE "high",
                 entries[k].ip, entries[k].ip, Activity(entries[k].ip).count,
                 Activity(entries[k].ip).first_seen, Activity(entries[k].ip).last_seen)]

\* the list detectHighRiskIPs returns
HighRiskReturn(entries, firstId) ==
    [k \in 1..Len(entries) |->
        [ id |-> firstId + k - 1, type |-> "high_risk_ip", ip |-> entries[k].ip,
          abuse_score |-> entries[k].value.abuse_confidence_score,
          risk_level |-> getRiskLevel(entries[k].value.abuse_confidence_score) ]
        @@ Activity(entries[k].ip)]

----------------------------------------------------------------------------
(* runAllDetections (detection/rules.js), called by POST /detect.  The     *)
(* first three rules and the enrichment up to its first wait run without   *)
(* interruption; the run resumes when the provider answers and when the    *)
(* timer fires.                                                            *)

\* the callers of runAllDetections: POST /logs/upload (and POST /ingest-csv)
\* after it stored its batch, POST /detect, and a later POST /detect
RunSlots == {"upload", "detect", "redetect"}

\* (mutation of FirstUnseen: first_seen may be NULL, no insertAlert throws)
FirstUnseenNullable(entries) == 0

\* the first high-risk entry whose address has no event in the last day any
\* more (0 if there is none): activityQuery then yields MIN and MAX NULL, and
\* insertAlert fails on first_seen TEXT NOT NULL
FirstUnseen(entries) ==
    LET gone == {k \in 1..Len(entries) : Activity(entries[k].ip).count = 0}
    IN  IF gone = {} THEN 0 ELSE SetMin(gone)

\* the run of slot s proceeds from `st`, the state EnrichFrom left it in: it
\* waits, or detectHighRiskIPs inserts its alerts and runAllDetections
\* returns, or insertAlert throws and the run fails with the alerts inserted
\* so far left in the table.  The event store is read as this step leaves it.
RunProceeds(s, reached, ips, lists, requests, failures, table) ==
    \E st \in {reached} :
        /\ ip_reputation' = st.table
        /\ answered' = st.history
        /\ IF st.pc = "done"
           THEN \E entries \in {HighRiskEntries(st.reps)}, firstId \in {Len(table) + 1} :
                \E stop \in {FirstUnseen(entries)'} :
                \E kept \in {IF stop = 0 THEN entries ELSE SubSeq(entries, 1, stop - 1)} :
                \E highRisk \in {HighRiskReturn(kept, firstId)'} :
                    /\ alerts' = table \o HighRiskAlerts(kept, firstId)'
                    /\ run' = [run EXCEPT ![s] = [pc |-> "idle", runs |-> run[s].runs + 1]]
                    /\ ret' = IF stop # 0
                              THEN [ op |-> "runAllDetections", value |-> <<>>,
                                     slot |-> s, failed |-> TRUE,
                                     requests |-> requests, failures |-> failures ]
                              ELSE [ op |-> "runAllDetections", value |-> <<>>,
                                     slot |-> s, failed |-> FALSE,
                                     brute_force |-> lists.brute_force,
                                     off_hours |-> lists.off_hours,
                                     geo_anomaly |-> lists.geo_anomaly,
                                     high_risk_ip |-> highRisk,
                                     total |-> Len(lists.brute_force) + Len(lists.off_hours)
                                               + Len(lists.geo_anomaly) + Len(highRisk),
                                     reputations |-> st.reps,
                                     requests |-> requests, failures |-> failures ]
           ELSE /\ alerts' = table
                /\ run' = [run EXCEPT ![s] =
                            [ pc |-> st.pc, runs |-> run[s].runs, ips |-> ips, k |-> st.k,
                              reps |-> st.reps, lists |-> lists,
                              requests |-> IF st.pc = "fetching" THEN requests + 1
                                           ELSE requests,
                              failures |-> failures ]]
                /\ ret' = [op |-> "none", value |-> <<>>]

\* (mutation of RunBegins: detectGeoAnomalies runs before
\* detectOffHoursAccess)
RunBeginsGeoFirst(s) ==
    /\ run[s].pc = "idle"
    /\ run[s].runs < MaxRuns
    /\ \E matched \in {FailedRecentRows'} :
       \E ipk \in {ipKeys(matched)'}, usk \in {userKeys(matched)'},
          geok \in {AllGeoKeys'} :
       \E pick \in BarePicksOf(matched, Range(usk))',
          geoPick \in GeoPicksOf(Range(geok))' :
       \E ipr \in {ipRows(matched, ipk)'},
          usr \in {userRows(matched, pick, usk)'},
          offHours \in {OffHoursResults'},
          geo \in {GeoRows(geoPick, geok)'},
          ips \in {DistinctRecentIPs'} :
             LET afterBrute == alerts \o BruteForceAlerts(ipr, usr, Len(alerts) + 1)
                 afterGeo == afterBrute \o GeoAlerts(geo, Len(afterBrute) + 1)
                 afterOffHours == afterGeo \o OffHoursAlerts(offHours, Len(afterGeo) + 1)
                 lists == [ brute_force |-> BruteForceReturn(ipr, usr, Len(alerts) + 1),
                            off_hours |-> OffHoursReturn(offHours, Len(afterGeo) + 1),
                            geo_anomaly |-> GeoReturn(geo, Len(afterBrute) + 1) ]
             IN  RunProceeds(s, EnrichFrom(ips, 1, <<>>, ip_reputation, answered),
                             ips, lists, 0, 0, afterOffHours)

\* runAllDetections() is called in slot s: detectBruteForce,
\* detectOffHoursAccess, detectGeoAnomalies, then detectHighRiskIPs up to its
\* first wait.  The rules read the event store as this step leaves it.
RunBegins(s) ==
    /\ run[s].pc = "idle"
    /\ run[s].runs < MaxRuns
    /\ \E matched \in {FailedRecentRows'} :
       \E ipk \in {ipKeys(matched)'}, usk \in {userKeys(matched)'},
          geok \in {AllGeoKeys'} :
       \E pick \in BarePicksOf(matched, Range(usk))',
          geoPick \in GeoPicksOf(Range(geok))' :
       \E ipr \in {ipRows(matched, ipk)'},
          usr \in {userRows(matched, pick, usk)'},
          offHours \in {OffHoursResults'},
          geo \in {GeoRows(geoPick, geok)'},
          ips \in {DistinctRecentIPs'} :
             LET afterBrute == alerts \o BruteForceAlerts(ipr, usr, Len(alerts) + 1)
                 afterOffHours == afterBrute \o OffHoursAlerts(offHours, Len(afterBrute) + 1)
                 afterGeo == afterOffHours \o GeoAlerts(geo, Len(afterOffHours) + 1)
                 lists == [ brute_force |-> BruteForceReturn(ipr, usr, Len(alerts) + 1),
                            off_hours |-> OffHoursReturn(offHours, Len(afterBrute) + 1),
                            geo_anomaly |-> GeoReturn(geo, Len(afterOffHours) + 1) ]
             IN  RunProceeds(s, EnrichFrom(ips, 1, <<>>, ip_reputation, answered),
                             ips, lists, 0, 0, afterGeo)

\* runAllDetections() is called in slot s while the alerts table cannot be
\* written: the n-th insertAlert.run of the three synchronous rules throws,
\* the rows inserted before it stay, and the exception leaves the rule and
\* runAllDetections, which catch nothing
RunBeginsStoreFails(s) ==
    /\ run[s].pc = "idle"
    /\ run[s].runs < MaxRuns
    /\ \E matched \in {FailedRecentRows} :
       \E ipk \in {ipKeys(matched)}, usk \in {userKeys(matched)}, geok \in {AllGeoKeys} :
       \E pick \in BarePicksOf(matched, Range(usk)), geoPick \in GeoPicksOf(Range(geok)) :
       \E ipr \in {ipRows(matched, ipk)}, usr \in {userRows(matched, pick, usk)},
          offHours \in {OffHoursResults}, geo \in {GeoRows(geoPick, geok)} :
             LET afterBrute == alerts \o BruteForceAlerts(ipr, usr, Len(alerts) + 1)
                 afterOffHours == afterBrute \o OffHoursAlerts(offHours, Len(afterBrute) + 1)
                 afterGeo == afterOffHours \o GeoAlerts(geo, Len(afterOffHours) + 1)
             IN  \E n \in (Len(alerts) + 1)..Len(afterGeo) :
                    /\ alerts' = SubSeq(afterGeo, 1, n - 1)
                    /\ ret' = [ op |-> "runAllDetections", value |-> <<>>, slot |-> s,
                                failed |-> TRUE, requests |-> 0, failures |-> 0 ]
    /\ run' = [run EXCEPT ![s] = [pc |-> "idle", runs |-> run[s].runs + 1]]
    /\ UNCHANGED <<now, logs, ingests, ticks, apiKey, ip_reputation, calls, answered>>

\* POST /logs/upload (POST /ingest-csv alike) with the parsed `entries`: the
\* transaction, then runAllDetections on the store that holds the batch; a
\* failed transaction ends the request before any rule runs
Upload(entries) ==
    /\ ingests < MaxIngests
    /\ Len(logs) + Len(entries) <= MaxLogs
    /\ ingests' = ingests + 1
    /\ logs' = Transaction(entries)
    /\ now' = now
    /\ IF FirstRejected(entries) = 0
       THEN RunBegins("upload")
       ELSE /\ ret' = IngestFailed("upload")
            /\ UNCHANGED <<alerts, ip_reputation, answered, run>>
    /\ UNCHANGED <<ticks, apiKey, calls>>

\* (mutation of RunStart: POST /detect waits until no other run is in flight)
RunStartExclusive ==
    /\ \A s \in RunSlots : run[s].pc = "idle"
    /\ UNCHANGED <<now, logs>>
    /\ RunBegins("detect")
    /\ UNCHANGED <<ingests, ticks, apiKey, calls>>

\* POST /detect
RunStart ==
    /\ UNCHANGED <<now, logs>>
    /\ RunBegins("detect")
    /\ UNCHANGED <<ingests, ticks, apiKey, calls>>

\* the provider's response (or the failure of the request) arrives: the lookup
\* stores and returns what fetchFromAbuseIPDB made of it, and the batch waits
\* for its timer
RunProviderAnswers(s) ==
    /\ run[s].pc = "fetching"
    /\ UNCHANGED <<now, logs>>
    /\ \E outcome \in ProviderOutcomes :
         LET ip == run[s].ips[run[s].k]
             reputation == fetchFromAbuseIPDB(ip, outcome)
             st == [ pc |-> "waiting", k |-> run[s].k + 1,
                     reps |-> Append(run[s].reps,
                                 [ip |-> ip, value |-> reputation,
                                  source |-> IF outcome.kind = "data"
                                             THEN "provider" ELSE "stub"]),
                     table |-> StoreInCache(reputation),
                     history |-> NoteAnswer(ip, reputation) ]
         IN  RunProceeds(s, st, run[s].ips, run[s].lists, run[s].requests,
                         IF outcome.kind = "data" THEN run[s].failures
                         ELSE run[s].failures + 1, alerts)
    /\ UNCHANGED <<ingests, ticks, apiKey, calls>>

\* (mutation of RunTimer: the batch and the run that follows it share one
\* transaction, a run that fails takes the stored events with it)
RunTimerRollsBack(s) ==
    /\ run[s].pc = "waiting"
    /\ now' = now
    /\ LET st == EnrichFrom(run[s].ips, run[s].k, run[s].reps, ip_reputation, answered)
       IN  logs' = IF st.pc = "done" /\ FirstUnseen(HighRiskEntries(st.reps)) # 0
                   THEN <<>> ELSE logs
    /\ RunProceeds(s, EnrichFrom(run[s].ips, run[s].k, run[s].reps,
                                 ip_reputation, answered),
                   run[s].ips, run[s].lists, run[s].requests, run[s].failures, alerts)
    /\ UNCHANGED <<ingests, ticks, apiKey, calls>>

\* the 250 ms timer fires: the batch goes on with its next address
RunTimer(s) ==
    /\ run[s].pc = "waiting"
    /\ UNCHANGED <<now, logs>>
    /\ RunProceeds(s, EnrichFrom(run[s].ips, run[s].k, run[s].reps,
                                 ip_reputation, answered),
                   run[s].ips, run[s].lists, run[s].requests, run[s].failures, alerts)
    /\ UNCHANGED <<ingests, ticks, apiKey, calls>>

----------------------------------------------------------------------------
(* Run scenarios: POST /logs/batch stores a single login or a burst of     *)
(* failed logins, POST /detect runs the rules, with or without an API key. *)

TenHours == 10 * SecondsPerHour
AlmostADay == SecondsPerDay - 1

\* a login at noon from a public address (fallback score 76, or 0) or from no
\* address, or at 02:00 from 10.0.0.5
RunLogins ==
    { [ip |-> IP_high, age |-> 0], [ip |-> IP_low, age |-> 0],
      [ip |-> NoIP, age |-> 0], [ip |-> IP_10_0_0_5, age |-> TenHours] }

RunLogin(e) ==
    [ timestamp |-> now - e.age, event_type |-> "login", username |-> "alice",
      source_ip |-> e.ip, status |-> "success" ]

\* the first event stored may be one second short of a day old
IngestForRun ==
    \/ \E e \in RunLogins : LogsBatch(<< RunLogin(e) >>)
    \/ LogsBatch(Burst(threshold, "one", "admin", "failed"))
    \/ logs = <<>> /\ LogsBatch(<< RunLogin([ip |-> IP_high, age |-> AlmostADay]) >>)

InitRun ==
    /\ now = Now0
    /\ logs = <<>>
    /\ alerts = <<>>
    /\ ret = [op |-> "none", value |-> <<>>]
    /\ ingests = 0
    /\ ticks = 0
    /\ apiKey \in BOOLEAN
    /\ ip_reputation = <<>>
    /\ calls = <<>>
    /\ answered = [ip \in Range(IPUniverse) |-> <<>>]
    /\ run = [s \in RunSlots |-> NoRun]

RunResumes == \E s \in RunSlots : RunProviderAnswers(s) \/ RunTimer(s)

\* a second passes while a detection run waits, and with it the oldest event
\* of the last 24 hours leaves the window
TickRun ==
    /\ \E s \in RunSlots : run[s].pc # "idle"
    /\ \E i \in 1..Len(logs) : logs[i].timestamp = now - AlmostADay
    /\ Advance(1, MaxTicks)

NextRun == IngestForRun \/ RunStart \/ RunResumes \/ TickRun

SpecRun == InitRun /\ [][NextRun]_vars

----------------------------------------------------------------------------
(* Claims about runAllDetections, checked under SpecRun.                   *)

RunReturned == ret.op = "runAllDetections" /\ ~ret.failed

\* the ids of a returned list are ids of rows of the given type
ListedIn(list, type) ==
    \A k \in 1..Len(list) :
        /\ list[k].id \in 1..Len(alerts)
        /\ alerts[list[k].id].alert_type = type

Consecutive(list) ==
    \A k \in 1..(Len(list) - 1) : list[k + 1].id = list[k].id + 1

\* every id of list a is smaller than every id of list b
Before(a, b) ==
    \A i \in 1..Len(a), j \in 1..Len(b) : a[i].id < b[j].id

\* C13: a run that returns has executed the four rules one after the other in
\* the order brute-force, off-hours, geo-anomaly, high-risk-IP: each returned
\* list names rows of its own rule, the rows of one rule were inserted
\* consecutively (no rule started before the one before it had finished), the
\* rows of the first three rules follow each other without a gap, every row of
\* an earlier rule was inserted before every row of a later one, and total is
\* the sum of the lengths of the four lists.
C13_RulesInFixedOrder ==
    RunReturned =>
        /\ ListedIn(ret.brute_force, "brute_force")
        /\ ListedIn(ret.off_hours, "off_hours_access")
        /\ ListedIn(ret.geo_anomaly, "geo_anomaly")
        /\ ListedIn(ret.high_risk_ip, "high_risk_ip")
        /\ Consecutive(ret.brute_force \o ret.off_hours \o ret.geo_anomaly)
        /\ Consecutive(ret.high_risk_ip)
        /\ Before(ret.brute_force, ret.off_hours)
        /\ Before(ret.brute_force \o ret.off_hours, ret.geo_anomaly)
        /\ Before(ret.brute_force \o ret.off_hours \o ret.geo_anomaly,
                  ret.high_risk_ip)
        /\ ret.total = Len(ret.brute_force) + Len(ret.off_hours)
                       + Len(ret.geo_anomaly) + Len(ret.high_risk_ip)

\* C13 witness: a run has returned four non-empty lists.
C13_Witness ==
    /\ RunReturned
    /\ ret.brute_force # <<>> /\ ret.off_hours # <<>>
    /\ ret.geo_anomaly # <<>> /\ ret.high_risk_ip # <<>>
    /\ ret.total = Len(alerts)

\* C17: every row of the alert table has first_seen and last_seen set with
\* first_seen <= last_seen, event_count >= 1 and status 'open' - the rows of
\* brute_force, off_hours_access and geo_anomaly as well as the rows of
\* high_risk_ip, whose count and times are read after the lookups, when the
\* clock may have advanced.
C17_AlertsWellFormed ==
    \A k \in 1..Len(alerts) :
        /\ alerts[k].first_seen # NoTime /\ alerts[k].last_seen # NoTime
        /\ alerts[k].first_seen <= alerts[k].last_seen
        /\ alerts[k].event_count >= 1
        /\ alerts[k].status = "open"

\* C17 witness: the clock advanced while a run waited for its lookups and an
\* event of 203.0.113.201 left the window; the run then inserted a
\* high_risk_ip alert for the address that counts the one event still inside,
\* of the two that are stored.
C17_Witness ==
    /\ RunReturned /\ ticks >= 1
    /\ Len(ret.high_risk_ip) = 1
    /\ ret.high_risk_ip[1].ip = IP_high
    /\ alerts[ret.high_risk_ip[1].id].event_count = 1
    /\ alerts[ret.high_risk_ip[1].id].first_seen = now - 1
    /\ Cardinality({i \in 1..Len(logs) : logs[i].source_ip = IP_high}) = 2

----------------------------------------------------------------------------
(* Claims about detectGeoAnomalies inside a run, checked under SpecRun on   *)
(* the step in which the run begins (the three synchronous rules run then). *)

\* an address that starts with '10.0.0.', '192.168.' or '0.0.0.'
HasSuspiciousPrefix(ip) ==
    /\ ip # NoIP
    /\ \/ (ip[1] = 10 /\ ip[2] = 0 /\ ip[3] = 0)
       \/ (ip[1] = 192 /\ ip[2] = 168)
       \/ (ip[1] = 0 /\ ip[2] = 0 /\ ip[3] = 0)

\* the stored events of an address that are not older than 24 hours
EventsInLastDay(ip) ==
    {i \in 1..Len(logs) : logs[i].source_ip = ip /\ now - logs[i].timestamp < 86400}

\* the geo_anomaly list a run holds or has returned
GeoListOf(s) ==
    IF run[s].pc # "idle" THEN run[s].lists.geo_anomaly ELSE ret.geo_anomaly

GeoListAsClaimed(list) ==
    /\ \A ip \in Range(IPUniverse) :
          LET events == EventsInLastDay(ip)
              entries == {k \in 1..Len(list) : list[k].source_ip = ip}
          IN  IF HasSuspiciousPrefix(ip) /\ events # {}
              THEN /\ Cardinality(entries) = 1
                   /\ \A k \in entries :
                         /\ list[k].access_count = Cardinality(events)
                         /\ \A i \in events : /\ list[k].first_seen <= logs[i].timestamp
                                               /\ list[k].last_seen >= logs[i].timestamp
                         /\ \E i \in events : list[k].first_seen = logs[i].timestamp
                         /\ \E i \in events : list[k].last_seen = logs[i].timestamp
              ELSE entries = {}
    /\ \A k \in 1..Len(list) :
          /\ list[k].type = "geo_anomaly"
          /\ list[k].id \in 1..Len(alerts)
          /\ alerts[list[k].id].alert_type = "geo_anomaly"
          /\ alerts[list[k].id].severity = "medium"
          /\ alerts[list[k].id].source_ip = list[k].source_ip
          /\ alerts[list[k].id].event_count = list[k].access_count
          /\ alerts[list[k].id].first_seen = list[k].first_seen
          /\ alerts[list[k].id].last_seen = list[k].last_seen

\* C24: when a run begins, detectGeoAnomalies inserts and lists exactly one
\* geo_anomaly alert of severity 'medium' for every address that starts with a
\* configured prefix and has events not older than 24 hours, with event_count
\* the number of these events and first_seen / last_seen their earliest and
\* latest timestamp; other addresses get none, and none gets two.
C24_OneGeoAlertPerAddress ==
    [][\A s \in RunSlots :
          (run[s].pc = "idle" /\ run'[s] # run[s]
             /\ ~(ret'.op = "runAllDetections" /\ ret'.failed))
              => GeoListAsClaimed(GeoListOf(s))']_vars

\* C24 witness: a run returned one geo_anomaly alert for 192.168.1.100 with
\* five events and one for 10.0.0.5, while a login from 203.0.113.x got none
C24_Witness ==
    /\ RunReturned
    /\ Len(ret.geo_anomaly) = 2
    /\ \E k \in 1..2 : /\ ret.geo_anomaly[k].source_ip = IP_private
                        /\ ret.geo_anomaly[k].access_count = 5
                        /\ ret.geo_anomaly[k].first_seen < ret.geo_anomaly[k].last_seen
    /\ \E k \in 1..2 : ret.geo_anomaly[k].source_ip = IP_10_0_0_5

\* C24 witness (no prefix): a run returned while the store held an event of
\* 203.0.113.201 only, and its geo_anomaly list is empty
C24_NoPrefixWitness ==
    /\ RunReturned
    /\ ret.geo_anomaly = <<>>
    /\ \E i \in 1..Len(logs) : logs[i].source_ip = IP_high

----------------------------------------------------------------------------
(* The alert store across a run, checked under SpecRun, where no two runs   *)
(* overlap.                                                                 *)

\* the ids listed in a returned list
IdsOf(list) == {list[k].id : k \in 1..Len(list)}

\* the three lists of the synchronous rules that a run holds or has returned
SyncListsOf(s) ==
    IF run[s].pc # "idle" THEN run[s].lists
    ELSE [ brute_force |-> ret.brute_force, off_hours |-> ret.off_hours,
           geo_anomaly |-> ret.geo_anomaly ]

RunFailed == ret.op = "runAllDetections" /\ ret.failed

\* C30: a run that overlaps no other adds to the alert store exactly the rows
\* whose ids it returns.  The step that begins it appends the rows listed by
\* the three synchronous rules, the steps at which it waits append nothing,
\* the step that ends it appends the rows of the high_risk_ip list; nothing
\* else appends or removes a row.  The ids of the four lists are pairwise
\* distinct, are the ids of the last `total` rows, and total is the sum of the
\* four lengths.  A run that fails leaves every row in the store, those it
\* inserted before the failure included.
C30_RunInsertsWhatItReturns ==
    [][ /\ Len(alerts') >= Len(alerts)
        /\ SubSeq(alerts', 1, Len(alerts)) = alerts
        /\ \A i \in 1..Len(alerts') : alerts'[i].id = i
        /\ (\A s \in RunSlots : run'[s] = run[s]) => alerts' = alerts
        /\ \A s \in RunSlots :
              /\ (run[s].pc = "idle" /\ run'[s] # run[s] /\ ~RunFailed') =>
                    LET lists == SyncListsOf(s)'
                        sync == IdsOf(lists.brute_force) \cup IdsOf(lists.off_hours)
                                \cup IdsOf(lists.geo_anomaly)
                        last == IF run'[s].pc = "idle" THEN IdsOf(ret'.high_risk_ip)
                                ELSE {}
                        n == Len(lists.brute_force) + Len(lists.off_hours)
                             + Len(lists.geo_anomaly)
                    IN  /\ Cardinality(sync) = n
                        /\ sync \cap last = {}
                        /\ sync \cup last = (Len(alerts) + 1)..Len(alerts')
                        /\ run'[s].pc = "idle" =>
                              /\ Cardinality(last) = Len(ret'.high_risk_ip)
                              /\ ret'.total = n + Len(ret'.high_risk_ip)
                              /\ Len(alerts') = Len(alerts) + ret'.total
              /\ (run[s].pc # "idle" /\ run'[s].pc # "idle") => alerts' = alerts
              /\ (run[s].pc # "idle" /\ run'[s].pc = "idle" /\ ~RunFailed') =>
                    LET held == run[s].lists
                        sync == IdsOf(held.brute_force) \cup IdsOf(held.off_hours)
                                \cup IdsOf(held.geo_anomaly)
                        last == IdsOf(ret'.high_risk_ip)
                    IN  /\ ret'.brute_force = held.brute_force
                        /\ ret'.off_hours = held.off_hours
                        /\ ret'.geo_anomaly = held.geo_anomaly
                        /\ Cardinality(last) = Len(ret'.high_risk_ip)
                        /\ last = (Len(alerts) + 1)..Len(alerts')
                        /\ sync \cap last = {}
                        /\ ret'.total = Cardinality(sync) + Cardinality(last)
                        /\ sync \cup last
                             = (Len(alerts') - ret'.total + 1)..Len(alerts')
              /\ (run[s].pc # "idle" /\ run'[s].pc = "idle" /\ RunFailed') =>
                    LET held == run[s].lists
                    IN  IdsOf(held.brute_force) \cup IdsOf(held.off_hours)
                        \cup IdsOf(held.geo_anomaly) \subseteq 1..Len(alerts')
      ]_vars

\* C30 witness: a run that waited for the provider has returned four
\* non-empty lists, and the store holds exactly the rows they list
C30_Witness ==
    /\ RunReturned
    /\ ret.requests >= 1
    /\ ret.brute_force # <<>> /\ ret.geo_anomaly # <<>> /\ ret.high_risk_ip # <<>>
    /\ Len(alerts) = ret.total
    /\ IdsOf(ret.brute_force) \cup IdsOf(ret.off_hours) \cup IdsOf(ret.geo_anomaly)
        \cup IdsOf(ret.high_risk_ip) = 1..Len(alerts)

\* C30 witness (failed run): a run has failed in detectHighRiskIPs and the
\* brute_force and geo_anomaly alerts it had inserted are in the store
C30_FailedWitness ==
    /\ RunFailed
    /\ \E i \in 1..Len(alerts) : alerts[i].alert_type = "brute_force"
    /\ \E i \in 1..Len(alerts) : alerts[i].alert_type = "geo_anomaly"
    /\ \A i \in 1..Len(alerts) : alerts[i].alert_type # "high_risk_ip"

----------------------------------------------------------------------------
(* Server scenarios: the routes of one server process at work together.    *)
(* POST /logs/upload stores logins from 203.0.113.201 and runs the rules,  *)
(* POST /logs/batch stores a login, both are sent a batch whose second     *)
(* entry cannot be stored, POST /detect runs the rules, the reputation     *)
(* cache is cleared, a second passes while a run waits.                    *)

ServerLogin(age, user) ==
    [ timestamp |-> now - age, event_type |-> "login", username |-> user,
      source_ip |-> IP_high, status |-> "success" ]

\* the runs begun so far
RunsBegun ==
    run["upload"].runs + run["detect"].runs
    + Cardinality({s \in RunSlots : run[s].pc # "idle"})

\* the batches the clients send: one login of alice, now or almost a day
\* ago, or both
ServerBatches ==
    { << ServerLogin(0, "alice") >>, << ServerLogin(AlmostADay, "alice") >>,
      << ServerLogin(AlmostADay, "alice"), ServerLogin(0, "alice") >> }

\* POST /logs/upload with a file that holds a login of almost a day ago
UploadLogin ==
    /\ RunsBegun < MaxServerRuns
    /\ \E batch \in ServerBatches \ {<< ServerLogin(0, "alice") >>} : Upload(batch)

\* POST /logs/batch stores a login without running the rules
BatchLogin == LogsBatch(<< ServerLogin(0, "alice") >>)

DetectOnServer == RunsBegun < MaxServerRuns /\ RunStart

\* a batch whose first entry can be stored and whose second cannot
RejectedBatch == << ServerLogin(0, "bob"), ServerLogin(0, Unbindable) >>

IngestRejected == LogsBatch(RejectedBatch) \/ Upload(RejectedBatch)

ServerCallers == {"req1"}

ServerLookup == \E c \in ServerCallers : LookupStart(c, IP_high)

ServerLookupAnswered ==
    \E c \in ServerCallers, o \in ProviderOutcomes : LookupFinish(c, o)

\* POST /ip/reputation/clear-cache between detection runs
EvictOnServer ==
    /\ \A s \in RunSlots : run[s].pc = "idle"
    /\ ip_reputation # <<>>
    /\ ClearCache

\* a second passes while a detection run waits, and with it the oldest event
\* of the last 24 hours leaves the window
TickServer ==
    /\ \E s \in RunSlots : run[s].pc # "idle"
    /\ \E i \in 1..Len(logs) : logs[i].timestamp = now - AlmostADay
    /\ Advance(1, MaxServerTicks)

InitServer ==
    /\ now = Now0
    /\ logs = <<>>
    /\ alerts = <<>>
    /\ ret = [op |-> "none", value |-> <<>>]
    /\ ingests = 0
    /\ ticks = 0
    /\ apiKey \in BOOLEAN
    /\ ip_reputation = <<>>
    /\ calls = [c \in ServerCallers |-> Idle]
    /\ answered = [ip \in Range(IPUniverse) |-> <<>>]
    /\ run = [s \in RunSlots |-> NoRun]

NextServer ==
    \/ UploadLogin
    \/ BatchLogin
    \/ IngestRejected
    \/ DetectOnServer
    \/ RunResumes
    \/ EvictOnServer
    \/ TickServer

SpecServer == InitServer /\ [][NextServer]_vars

----------------------------------------------------------------------------
(* Claims checked under SpecServer.                                        *)

\* C12 as stated: enrichIPsBatch waits for its 250 ms timer only after an
\* address whose lookup sent a request to the provider, never after one
\* answered from the cache.
C12_AsClaimed ==
    \A s \in RunSlots :
        run[s].pc = "waiting" =>
            run[s].reps[Len(run[s].reps)].source # "cache"

\* the response to the last request says its batch was rejected
IngestRejectedReturned ==
    ret.op \in {"logsBatch", "upload"} /\ ret.value = <<>>
    /\ ret = IngestFailed(ret.op)

\* C14: an ingestion request whose batch has an entry that cannot be inserted
\* leaves the event store as it was and answers 500; any other ingestion
\* request appends every entry of its batch, in order; and in no state does
\* the event store hold an entry of a rejected batch, so no detection run
\* ever reads one.
C14_AllOrNothing ==
    [][ /\ ingests' = ingests + 1 =>
            \/ IngestRejectedReturned' /\ logs' = logs
            \/ /\ ~IngestRejectedReturned'
               /\ \E batch \in ServerBatches :
                     /\ FirstRejected(batch) = 0
                     /\ logs' = insertMany(batch)
        /\ \A i \in 1..Len(logs') : logs'[i].username # "bob"
      ]_vars

\* C14 witness: a batch of two entries is stored whole, and a later batch
\* whose second entry cannot be inserted has been answered 500 with none of
\* its entries stored.
C14_Witness ==
    /\ IngestRejectedReturned
    /\ Len(logs) = 2
    /\ logs[1].timestamp = now - AlmostADay /\ logs[2].timestamp = now
    /\ \A i \in 1..Len(logs) : logs[i].username = "alice"

\* a reputation whose address detectHighRiskIPs is to raise an alert for
Risky(e) ==
    /\ DataOf(e.value, e.source).is_whitelisted = FALSE
    /\ e.value.abuse_confidence_score >= 50

\* C15 as stated: when detectHighRiskIPs ends, it has inserted exactly one
\* high_risk_ip alert for each address of its batch (the distinct addresses
\* seen in the last 24 hours) whose reputation is not whitelisted and scores
\* 50 or more, critical from 75 on and high below, and none for any other
\* address.
C15_AsClaimed ==
    [][ \A s \in RunSlots :
          run'[s].runs = run[s].runs + 1 =>
            /\ run[s].pc = "idle" => ~ret'.failed
            /\ LET reps == IF run[s].pc = "idle" THEN ret'.reputations
                           ELSE run[s].reps
                   risky == SelectSeq(reps, Risky)
                   new == SelectSeq(SubSeq(alerts', Len(alerts) + 1, Len(alerts')),
                                    LAMBDA a : a.alert_type = "high_risk_ip")
               IN  /\ Len(new) = Len(risky)
                   /\ \A k \in 1..Len(risky) :
                         /\ new[k].source_ip = risky[k].ip
                         /\ new[k].severity
                              = IF risky[k].value.abuse_confidence_score >= 75
                                THEN "critical" ELSE "high"
      ]_vars

\* C18: no step - ingestion accepted or rejected, detection run with its
\* reputation lookups, eviction of reputation records, passing of time -
\* changes or removes a stored event: the event store before the step is a
\* prefix of the event store after it, and the ids of the stored events
\* strictly increase in the order in which they were appended.
C18_AppendOnly ==
    [][ /\ Len(logs') >= Len(logs)
        /\ SubSeq(logs', 1, Len(logs)) = logs
        /\ \A i, j \in 1..Len(logs') : i < j => logs'[i].id < logs'[j].id
      ]_vars

\* C18 witness: two batches were appended, a detection run looked up a
\* reputation and stored an alert, and the eviction of stale reputation
\* records has just run; the three events are in the store with ids 1, 2, 3.
C18_Witness ==
    /\ ret.op = "clearStaleCache"
    /\ Len(logs) = 3 /\ \A i \in 1..3 : logs[i].id = i
    /\ ingests = 2
    /\ alerts # <<>> /\ ip_reputation # <<>>

\* C26 as stated: no ingestion request is rejected because of a field of an
\* entry: every request stores each entry of its batch, so the event store
\* grows by the length of the batch, and every stored event has a timestamp.
C26_AsClaimed ==
    [][ /\ ingests' = ingests + 1 =>
            /\ ~IngestRejectedReturned'
            /\ \E batch \in ServerBatches \cup {RejectedBatch} :
                  Len(logs') = Len(logs) + Len(batch)
        /\ \A i \in 1..Len(logs') : logs'[i].timestamp # NoTime
      ]_vars

\* the run that POST /logs/upload awaited has just failed
UploadRunFailed == ret.op = "runAllDetections" /\ ret.failed /\ ret.slot = "upload"

\* C21: the step in which the detection run of an upload fails leaves the
\* event store as it was, the store still holds the events the upload
\* committed (alice's logins from 203.0.113.201, by now a day old), and the
\* response carries the error and no detection result.
C21_IngestSurvivesFailedRun ==
    [][UploadRunFailed' =>
          /\ logs' = logs
          /\ logs # <<>>
          /\ \A i \in 1..Len(logs') :
                /\ logs'[i].id = i
                /\ logs'[i].username = "alice" /\ logs'[i].source_ip = IP_high
                /\ logs'[i].timestamp # NoTime
                /\ logs'[i].timestamp <= now' - SecondsPerDay
          /\ ingests' >= 1
          /\ DOMAIN ret' \cap {"brute_force", "off_hours", "geo_anomaly",
                                "high_risk_ip", "total"} = {}
      ]_vars

\* C21 witness: the upload stored one event, the run it awaited has failed
\* after the clock moved on, and the event is in the store
C21_Witness ==
    /\ UploadRunFailed
    /\ ticks >= 1
    /\ Len(logs) = 1
    /\ logs[1].source_ip = IP_high
    /\ logs[1].timestamp = now - SecondsPerDay

----------------------------------------------------------------------------
(* Rerun scenarios: a client asks for the reputation of 203.0.113.201, the *)
(* record ages to its last second, events are stored, POST /detect runs    *)
(* the rules, a second passes, POST /detect runs them again on the same    *)
(* events.                                                                 *)

MaxRerunTicks == 2

\* GET /ip/:ip/reputation before any event is stored
RerunLookup == logs = <<>> /\ ticks = 0 /\ ServerLookup

\* the cached record reaches the last second of its TTL
AgeCache ==
    /\ logs = <<>> /\ ticks = 0 /\ ip_reputation # <<>>
    /\ \A c \in ServerCallers : calls[c].pc = "idle"
    /\ Advance(CacheTTL - 1, MaxRerunTicks)

\* POST /logs/batch before the first run
IngestForRerun ==
    /\ \A s \in RunSlots : run[s] = NoRun
    /\ \A c \in ServerCallers : calls[c].pc = "idle"
    /\ \/ LogsBatch(<< RunLogin([ip |-> IP_high, age |-> 0]) >>)
       \/ LogsBatch(<< RunLogin([ip |-> IP_10_0_0_5, age |-> TenHours]) >>)
       \/ LogsBatch(Burst(threshold, "one", "admin", "failed"))

\* the first POST /detect
RunFirst ==
    /\ logs # <<>>
    /\ \A s \in RunSlots : run[s] = NoRun
    /\ \A c \in ServerCallers : calls[c].pc = "idle"
    /\ RunStart

\* a second passes between the two runs
TickBetween ==
    /\ run["detect"] = [pc |-> "idle", runs |-> 1]
    /\ run["redetect"] = NoRun
    /\ Advance(1, MaxRerunTicks)

\* the second POST /detect, after the first has answered
RunAgain ==
    /\ run["detect"] = [pc |-> "idle", runs |-> 1]
    /\ run["redetect"] = NoRun
    /\ UNCHANGED <<now, logs>>
    /\ RunBegins("redetect")
    /\ UNCHANGED <<ingests, ticks, apiKey, calls>>

NextRerun ==
    \/ RerunLookup
    \/ ServerLookupAnswered
    \/ AgeCache
    \/ IngestForRerun
    \/ RunFirst
    \/ TickBetween
    \/ RunAgain
    \/ RunResumes

SpecRerun == InitServer /\ [][NextRerun]_vars

\* the second run has returned
RerunReturned == RunReturned /\ ret.slot = "redetect"

\* the rows of the alert table of one type
AlertsOf(type) == SelectSeq(alerts, LAMBDA a : a.alert_type = type)

\* the rows of one type are those of one run followed by the same patterns
\* again
Repeated(type) ==
    LET rows == AlertsOf(type)
        n == Len(rows) \div 2
    IN  /\ Len(rows) = 2 * n
        /\ \A k \in 1..n :
              /\ rows[n + k].affected_entity = rows[k].affected_entity
              /\ rows[n + k].source_ip = rows[k].source_ip
              /\ rows[n + k].severity = rows[k].severity
              /\ rows[n + k].event_count = rows[k].event_count
              /\ rows[n + k].first_seen = rows[k].first_seen
              /\ rows[n + k].last_seen = rows[k].last_seen

\* C19 as stated: the second of two runs on an unchanged event store, every
\* pattern still inside its window, has added as many alerts as the first.
C19_AsClaimed ==
    RerunReturned => Len(alerts) = 2 * ret.total

\* C19 amended: the second run inserts and returns again the brute_force,
\* off_hours_access and geo_anomaly alerts of the first; when it resolved
\* every address from the cache (the records the first run used or stored
\* are still fresh), it also repeats the high_risk_ip alerts, and has added
\* as many alerts as the first run.
C19_RerunRepeatsAlerts ==
    RerunReturned =>
        /\ Repeated("brute_force") /\ Len(AlertsOf("brute_force")) = 2 * Len(ret.brute_force)
        /\ Repeated("off_hours_access")
        /\ Len(AlertsOf("off_hours_access")) = 2 * Len(ret.off_hours)
        /\ Repeated("geo_anomaly") /\ Len(AlertsOf("geo_anomaly")) = 2 * Len(ret.geo_anomaly)
        /\ (\A k \in 1..Len(ret.reputations) : ret.reputations[k].source = "cache") =>
              /\ Repeated("high_risk_ip")
              /\ Len(AlertsOf("high_risk_ip")) = 2 * Len(ret.high_risk_ip)
              /\ Len(alerts) = 2 * ret.total

\* C19 witness: the second run has returned brute_force, off_hours,
\* geo_anomaly and high_risk_ip alerts, every reputation read from the cache,
\* and the alert table holds twice as many rows as the run returned.
C19_Witness ==
    /\ RerunReturned
    /\ \A k \in 1..Len(ret.reputations) : ret.reputations[k].source = "cache"
    /\ ret.brute_force # <<>> /\ ret.off_hours # <<>>
    /\ ret.geo_anomaly # <<>> /\ ret.high_risk_ip # <<>>
    /\ Len(alerts) = 2 * ret.total

----------------------------------------------------------------------------
(* Overlap scenarios: POST /logs/upload stores a login and runs the rules, *)
(* POST /detect runs them, each run resuming as its lookups are answered.  *)

\* POST /logs/upload with a login at 02:00 from 10.0.0.5 or one at noon from
\* 203.0.113.201
UploadForOverlap ==
    \/ Upload(<< RunLogin([ip |-> IP_10_0_0_5, age |-> TenHours]) >>)
    \/ Upload(<< RunLogin([ip |-> IP_high, age |-> 0]) >>)

NextOverlap == UploadForOverlap \/ RunStart \/ RunResumes

SpecOverlap == InitServer /\ [][NextOverlap]_vars

\* two rows of the alert table describe the same pattern
SamePattern(a, b) ==
    /\ a.alert_type = b.alert_type
    /\ a.affected_entity = b.affected_entity
    /\ a.source_ip = b.source_ip
    /\ a.first_seen = b.first_seen

\* the ids of the alerts a run in flight has inserted so far
InsertedBy(s) ==
    {e.id : e \in Range(run[s].lists.brute_force) \cup Range(run[s].lists.off_hours)
                  \cup Range(run[s].lists.geo_anomaly)}

\* C20: nothing excludes a second run while one is in flight: as long as the
\* run started by an upload awaits its reputation lookups, POST /detect can
\* start its own; and the run it starts inserts, under a new id, an alert for
\* every pattern for which the run in flight has inserted one, so that the
\* alert table holds two alerts for the same pattern.
C20_OverlappingRunsDuplicate ==
    [][ /\ (run["upload"].pc # "idle" /\ run["detect"] = NoRun) => ENABLED RunStart
        /\ (run["upload"].pc # "idle" /\ run["detect"] = NoRun
              /\ run'["detect"] # NoRun) =>
              /\ run'["detect"].pc # "idle"
              /\ \A i \in InsertedBy("upload") :
                    \E j \in InsertedBy("detect")' :
                        /\ j # i
                        /\ SamePattern(alerts'[i], alerts'[j])
      ]_vars

\* C20 witness: the run started by the upload and the run started by POST
\* /detect both await their lookups, and the alert table holds two
\* off_hours_access alerts and two geo_anomaly alerts for the login from
\* 10.0.0.5, one of each inserted by either run.
C20_Witness ==
    /\ run["upload"].pc # "idle" /\ run["detect"].pc # "idle"
    /\ Len(alerts) = 4
    /\ \A i \in InsertedBy("upload") :
          \E j \in InsertedBy("detect") : j # i /\ SamePattern(alerts[i], alerts[j])
    /\ InsertedBy("upload") \cap InsertedBy("detect") = {}
    /\ Cardinality(InsertedBy("upload")) = 2

----------------------------------------------------------------------------
(* The four rules in any order.  Without API key detectHighRiskIPs runs     *)
(* without suspending, so the four rules run on one event store, one cache  *)
(* and one clock reading.  Each rule reads logs (the fourth also            *)
(* ip_reputation); of the alerts table a rule learns only the ids of the    *)
(* rows it inserts itself.                                                  *)

RuleNames == << "brute_force", "off_hours", "geo_anomaly", "high_risk_ip" >>

\* the orders in which the four rules can be called
RuleOrders ==
    {order \in [1..4 -> Range(RuleNames)] :
        \A i, j \in 1..4 : order[i] = order[j] => i = j}

\* what the queries of the four rules return on the current store, cache and
\* clock, given the rows that supply the bare columns
RuleQueries(pick, geoPick) ==
    [ ipr |-> ipResults(FailedRecentRows),
      usr |-> userResults(FailedRecentRows, pick),
      offHours |-> OffHoursResults,
      geo |-> GeoResults(geoPick),
      entries |-> HighRiskEntries(
                    EnrichFrom(DistinctRecentIPs, 1, <<>>, ip_reputation, answered).reps) ]

\* the rows a rule inserts when the table's next id is firstId
RuleRows(rule, q, firstId) ==
    CASE rule = "brute_force" -> BruteForceAlerts(q.ipr, q.usr, firstId)
      [] rule = "off_hours" -> OffHoursAlerts(q.offHours, firstId)
      [] rule = "geo_anomaly" -> GeoAlerts(q.geo, firstId)
      [] rule = "high_risk_ip" -> HighRiskAlerts(q.entries, firstId)

\* the list a rule returns when the first row it inserts is the n-th of the
\* table and it inserts `inserted` rows
RuleReturn(rule, q, firstId, inserted) ==
    LET list == CASE rule = "brute_force" -> BruteForceReturn(q.ipr, q.usr, firstId)
                  [] rule = "off_hours" -> OffHoursReturn(q.offHours, firstId)
                  [] rule = "geo_anomaly" -> GeoReturn(q.geo, firstId)
                  [] rule = "high_risk_ip" -> HighRiskReturn(q.entries, firstId)
    IN  SubSeq(list, 1, inserted)

\* the list `rule` returned, given the alerts table before the first rule and
\* after each rule of `order`
ReturnedIn(rule, order, q, tables) ==
    LET k == CHOOSE i \in 1..4 : order[i] = rule
    IN  RuleReturn(rule, q, Len(tables[k]) + 1, Len(tables[k + 1]) - Len(tables[k]))

\* the four rules are called in `order`, after the clients' batches are in;
\* the call reports, besides the four lists, what its queries returned
DetectInOrder ==
    /\ run.runs < MaxRuns
    /\ ingests = MaxIngests
    /\ ~apiKey
    /\ \E pick \in BarePicks(FailedRecentRows), geoPick \in GeoPicks :
         \E q \in {RuleQueries(pick, geoPick)},
            st \in {EnrichFrom(DistinctRecentIPs, 1, <<>>, ip_reputation, answered)} :
         \E order \in RuleOrders :
         \E t1 \in {alerts \o RuleRows(order[1], q, Len(alerts) + 1)} :
         \E t2 \in {t1 \o RuleRows(order[2], q, Len(t1) + 1)} :
         \E t3 \in {t2 \o RuleRows(order[3], q, Len(t2) + 1)} :
         \E t4 \in {t3 \o RuleRows(order[4], q, Len(t3) + 1)} :
         \E tables \in {<<alerts, t1, t2, t3, t4>>} :
             /\ alerts' = t4
             /\ ip_reputation' = st.table
             /\ answered' = st.history
             /\ ret' = [ op |-> "rulesInOrder", value |-> <<>>, order |-> order,
                         queries |-> q,
                         brute_force |-> ReturnedIn("brute_force", order, q, tables),
                         off_hours |-> ReturnedIn("off_hours", order, q, tables),
                         geo_anomaly |-> ReturnedIn("geo_anomaly", order, q, tables),
                         high_risk_ip |-> ReturnedIn("high_risk_ip", order, q, tables) ]
    /\ run' = [run EXCEPT !.runs = @ + 1]
    /\ UNCHANGED <<now, logs, ingests, ticks, apiKey, calls>>

\* POST /logs/batch stores a burst of failed logins from 192.168.1.100, a
\* login at 02:00 from 10.0.0.5, or a login at noon from 203.0.113.201
IngestForOrder ==
    \/ LogsBatch(Burst(threshold, "one", "admin", "failed"))
    \/ LogsBatch(<< RunLogin([ip |-> IP_10_0_0_5, age |-> TenHours]) >>)
    \/ LogsBatch(<< RunLogin([ip |-> IP_high, age |-> 0]) >>)

NextOrder == IngestForOrder \/ DetectInOrder

SpecOrder == Init /\ [][NextOrder]_vars

\* the alerts table before detectBruteForce and after each rule, when the
\* rules run on `table` in the order of runAllDetections
RECURSIVE TablesInCodeOrder(_, _)
TablesInCodeOrder(q, tables) ==
    IF Len(tables) = 5 THEN tables
    ELSE TablesInCodeOrder(q,
            Append(tables, tables[Len(tables)]
                           \o RuleRows(RuleNames[Len(tables)], q,
                                       Len(tables[Len(tables)]) + 1)))

\* a returned list without the ids of the inserted rows
WithoutIds(list) ==
    [k \in 1..Len(list) |-> [f \in DOMAIN list[k] \ {"id"} |-> list[k][f]]]

\* C28 as stated: the list each rule returns is the same for every order in
\* which the four rules are executed on a given event store, cache and clock:
\* in whatever order they ran, each list is the one the rule returns in the
\* order of runAllDetections.
C28_AsClaimed ==
    [][ret'.op = "rulesInOrder" =>
          \A q \in {ret'.queries} :
          \A tables \in {TablesInCodeOrder(q, <<alerts>>)} :
          \A rule \in Range(RuleNames) :
              ret'[rule] = ReturnedIn(rule, RuleNames, q, tables)
      ]_vars

\* C28: for every order in which the four rules are executed on a given
\* event store, cache and clock, each rule returns the same entries in the
\* same sequence as in the order of runAllDetections, apart from the ids: the
\* ids of a rule's entries are those of the rows it inserted, which follow the
\* rows of the rules that ran before it.
C28_ListsSameUpToIds ==
    [][ret'.op = "rulesInOrder" =>
          /\ \A q \in {ret'.queries} :
             \A tables \in {TablesInCodeOrder(q, <<alerts>>)} :
             \A rule \in Range(RuleNames) :
                WithoutIds(ret'[rule])
                  = WithoutIds(ReturnedIn(rule, RuleNames, q, tables))
          /\ \A k \in 1..4 :
                LET rule == ret'.order[k]
                    earlier == {ret'.order[j] : j \in 1..(k - 1)}
                    rowsBefore == Len(alerts)
                                  + Len(IF "brute_force" \in earlier
                                        THEN ret'.brute_force ELSE <<>>)
                                  + Len(IF "off_hours" \in earlier
                                        THEN ret'.off_hours ELSE <<>>)
                                  + Len(IF "geo_anomaly" \in earlier
                                        THEN ret'.geo_anomaly ELSE <<>>)
                                  + Len(IF "high_risk_ip" \in earlier
                                        THEN ret'.high_risk_ip ELSE <<>>)
                IN  \A i \in 1..Len(ret'[rule]) : ret'[rule][i].id = rowsBefore + i
          /\ Len(alerts') = Len(alerts) + Len(ret'.brute_force) + Len(ret'.off_hours)
                            + Len(ret'.geo_anomaly) + Len(ret'.high_risk_ip)
      ]_vars

\* C28 witness: the rules ran with detectHighRiskIPs first and
\* detectBruteForce last, three of them returned entries, and the brute_force
\* entries carry higher ids than the high_risk_ip entry
C28_Witness ==
    /\ ret.op = "rulesInOrder"
    /\ ret.order[1] = "high_risk_ip" /\ ret.order[4] = "brute_force"
    /\ ret.high_risk_ip # <<>> /\ ret.geo_anomaly # <<>> /\ ret.brute_force # <<>>
    /\ ret.high_risk_ip[1].id = 1
    /\ ret.brute_force[1].id > ret.geo_anomaly[1].id

----------------------------------------------------------------------------
(* Pacing scenarios: the overlap scenarios together with a client of       *)
(* GET /ip/:ip/reputation, which looks up 203.0.113.201.                   *)

NextPacing ==
    \/ UploadForOverlap
    \/ RunStart
    \/ RunResumes
    \/ ServerLookup
    \/ ServerLookupAnswered

SpecPacing == InitServer /\ [][NextPacing]_vars

\* the provider requests that are open
OpenRequests ==
    {<<"run", s>> : s \in {t \in RunSlots : run[t].pc = "fetching"}}
    \cup {<<"route", c>> : c \in {d \in ServerCallers : calls[d].pc = "fetching"}}

\* no 250 ms wait has begun so far: no run has completed a lookup
NoWaitBegun ==
    \A s \in RunSlots :
        /\ run[s].runs = 0
        /\ run[s].pc = "idle" \/ (run[s].pc = "fetching" /\ run[s].reps = <<>>)

\* C27 as stated: any two successive provider requests are issued at least
\* 250 ms apart.  The timers of enrichIPsBatch are the only delays in the
\* program, so as long as none has begun, a second request can follow the
\* first at once: the claim requires that at most one request has been sent
\* by then.
C27_AsClaimed == NoWaitBegun => Cardinality(OpenRequests) <= 1

----------------------------------------------------------------------------
(* Progress of lookups.  The event loop runs every callback that is due, so *)
(* a timer that was set does fire; fetch is called without a signal or a    *)
(* timeout, so the code sets no time by which a request is over: whether    *)
(* and when a request ends (response, refusal, error raised by the HTTP     *)
(* client) is the environment's choice.                                     *)

SpecLive == SpecPacing /\ \A s \in RunSlots : WF_vars(RunTimer(s))

----------------------------------------------------------------------------
(* Faulty-store scenarios: the database may refuse a write.  A client asks *)
(* for reputations, POST /logs/batch stores a burst of failed logins or a  *)
(* login from 10.0.0.5, POST /detect runs the rules; the write of the      *)
(* reputation record or of an alert may throw.                             *)

FaultyLookup == ServerLookup

FaultyLookupAnswered == ServerLookupAnswered

ReputationWriteFails ==
    \E c \in ServerCallers :
        \/ LookupStartStoreFails(c, IP_high)
        \/ \E o \in ProviderOutcomes : LookupFinishStoreFails(c, o)

IngestForFaulty ==
    \/ LogsBatch(<< RunLogin([ip |-> IP_10_0_0_5, age |-> TenHours]) >>)
    \/ LogsBatch(Burst(threshold, "one", "admin", "failed"))

AlertWriteFails == RunBeginsStoreFails("detect")

NextFaulty ==
    \/ FaultyLookup
    \/ FaultyLookupAnswered
    \/ ReputationWriteFails
    \/ IngestForFaulty
    \/ RunStart
    \/ RunResumes
    \/ AlertWriteFails

SpecFaulty == InitServer /\ [][NextFaulty]_vars

\* a lookup has returned after its write to ip_reputation threw
WriteFailedInLookup == ret.op = "getIPReputationWithCache" /\ ret.stored = "failed"

\* C25 as stated: a lookup whose write to the reputation store failed fails
\* itself and returns no result, and a run in which a write to the alert
\* store failed during one of the first three rules fails.
C25_AsClaimed ==
    /\ [](WriteFailedInLookup => ret.value = <<>>)
    /\ [][AlertWriteFails => RunFailed']_vars

----------------------------------------------------------------------------
(* generateStubReputation applied to IPv4 addresses inside and outside the *)
(* private ranges, with last octets on both sides of each band.            *)

StubFirstOctets == {10, 172, 192, 203}
StubSecondOctets == {0, 2, 15, 16, 20, 31, 32, 168, 200}
StubLastOctets == {0, 100, 101, 200, 201, 255}

StubIPs ==
    {<<a, b, 0, d>> : a \in StubFirstOctets, b \in StubSecondOctets,
                      d \in StubLastOctets}

\* a caller invokes generateStubReputation(ip)
StubCall ==
    /\ \E ip \in StubIPs :
          ret' = [ op |-> "generateStubReputation", ip |-> ip,
                   value |-> generateStubReputation(ip) ]
    /\ UNCHANGED <<now, logs, alerts, ingests, ticks, cacheVars>>

InitStub ==
    /\ now = Now0
    /\ logs = <<>>
    /\ alerts = <<>>
    /\ ret = [op |-> "none", value |-> <<>>]
    /\ ingests = 0
    /\ ticks = 0
    /\ apiKey = FALSE
    /\ ip_reputation = <<>>
    /\ calls = <<>>
    /\ answered = [ip \in Range(IPUniverse) |-> <<>>]
    /\ run = [s \in RunSlots |-> NoRun]

NextStub == StubCall

SpecStub == InitStub /\ [][NextStub]_vars

\* 10.x, 172.16.x - 172.31.x, 192.168.x
InPrivateRange(ip) ==
    \/ ip[1] = 10
    \/ ip[1] = 172 /\ ip[2] \in 16..31
    \/ ip[1] = 192 /\ ip[2] = 168

\* C16 as stated: the fallback record of an IPv4 address is whitelisted with
\* score 0 exactly when the address is in 10.x, 172.16.x - 172.31.x or
\* 192.168.x; the record of any other address is not whitelisted and scores
\* 75..99 for a last octet above 200, 25..49 for 101..200, 0..14 up to 100.
C16_AsClaimed ==
    ret.op = "generateStubReputation" =>
        /\ (ret.value.is_whitelisted /\ ret.value.abuse_confidence_score = 0)
              <=> InPrivateRange(ret.ip)
        /\ ~InPrivateRange(ret.ip) =>
              /\ ~ret.value.is_whitelisted
              /\ ret.ip[4] > 200 => ret.value.abuse_confidence_score \in 75..99
              /\ ret.ip[4] \in 101..200 => ret.value.abuse_confidence_score \in 25..49
              /\ ret.ip[4] <= 100 => ret.value.abuse_confidence_score \in 0..14

====
